---------------------------- MODULE Spec2Model ----------------------------
(***************************************************************************)
(* A model of the OwnNews ranking engine (src/engine.py), of the part of   *)
(* the Streamlit front-end that drives onboarding (src/app.py) and of the  *)
(* collector's insert into the article store (src/collector.py).           *)
(*                                                                         *)
(* Vectors.  Embeddings and user vectors are modelled in dimension D = 1   *)
(* over exact rationals <<n, d>> (d > 0, lowest terms): the Euclidean norm *)
(* is the absolute value, and the rescaling w * (||u|| / ||w||) of the     *)
(* code is exact.  The rounding of float32 arithmetic is not modelled.     *)
(*                                                                         *)
(* Tables.  user_interactions, user_profile are sequences of rows, so that *)
(* "at most one row per key" is a property of the code's upserts and not   *)
(* of the representation.  user_vectors is keyed by its primary key.       *)
(***************************************************************************)
EXTENDS Integers, Sequences, FiniteSets, TLC

\* ----------------------------------------------------------------- bounds

\* Users (Google e-mail identities) are 1..NumUsers.
NumUsers == 2
\* Article ids are 1..NumArticles.
NumArticles == 3
\* Engine / UI calls per behaviour.
MaxOps == 3
\* Grouping is explored over lists of at most MaxListLen ids out of 1..MaxGroupIds.
MaxGroupIds == 3
MaxListLen == 4

\* Browser sessions (tabs) running interleaved operations are 1..NumSessions.
NumSessions == 2
\* Operations each of them starts per behaviour.
MaxSessionOps == 1
\* Calendar days are 1..MaxDays.
MaxDays == 2
\* Label multisets: the number of distinct labels and the count of one label.
MaxLabels == 15
MaxCount == 3
\* Label multisets of three labels: the counts of the first and of the other two.
MaxDominant == 26
MaxRest == 17
\* The feeds of a collector run and the entries of one feed.
NumFeeds == 2
MaxEntries == 2
\* BATCH_SIZE of the migration script, scaled to the store of the model.
BatchSize == 2

Users == 1..NumUsers
Sessions == 1..NumSessions
ArticleIds == 1..NumArticles

\* The corpus: the embedding (D = 1) the embedder computes for article i from
\* its title and summary.  6 = 6 * 1 is the embedding for which
\* (1 + s) u - s v vanishes at s = 0.2, u = 1.
Corpus == <<1, 6, -1, 2>>

\* The coarse tags (category names, as numbers) of the category field of article i.
CorpusTags == <<{1}, {1, 2}, {}, {2}>>

\* ONBOARDING_CATEGORIES, as numbers.
OnboardingCategories == {1, 2}

\* Python's None for a vector-valued field (a vector is a pair <<n, d>>).
None == <<>>

\* -------------------------------------------------------------- rationals

Abs(x) == IF x < 0 THEN -x ELSE x

RECURSIVE Gcd(_, _)
Gcd(a, b) == IF b = 0 THEN a ELSE Gcd(b, a % b)

\* The rational n / d in lowest terms with a positive denominator (d # 0).
Rat(n, d) ==
  LET g == Gcd(Abs(n), Abs(d))
      s == IF d < 0 THEN -1 ELSE 1
  IN  <<(s * n) \div g, (s * d) \div g>>

RInt(n) == <<n, 1>>
RAdd(p, q) == Rat(p[1] * q[2] + q[1] * p[2], p[2] * q[2])
RSub(p, q) == Rat(p[1] * q[2] - q[1] * p[2], p[2] * q[2])
RMul(p, q) == Rat(p[1] * q[1], p[2] * q[2])
RDiv(p, q) == Rat(p[1] * q[2], p[2] * q[1])
RLe(p, q) == p[1] * q[2] <= q[1] * p[2]
RLt(p, q) == p[1] * q[2] < q[1] * p[2]
RMax(p, q) == IF RLe(p, q) THEN q ELSE p
RZero == <<0, 1>>
ROne == <<1, 1>>

\* np.linalg.norm in dimension 1.
Norm(p) == <<Abs(p[1]), p[2]>>

\* ------------------------------------------------------------------ state

VARIABLES
  articles,           \* articles table: id -> [present, embedding, collected_at]
  user_vectors,       \* user_vectors table: user_id -> None | vector
  user_interactions,  \* user_interactions table: sequence of rows
  user_profile,       \* user_profile table: sequence of rows
  last,               \* what the last call did and returned
  hist,               \* history: per user, the initialisation and the feedback norms
  ui,                 \* per user, the onboarding page's session state
  nOps,               \* calls made
  health_score_history, \* health_score_history table: sequence of rows
  today,              \* the calendar day of date.today()
  sessions,           \* per session, the position inside an interleaved operation
  article_links,      \* articles table as the collector writes it: the link of each row
  migration           \* the embedding-migration script: its position and locals

\* The state of the stand-alone scripts.
scripts == <<article_links, migration>>

vars == <<articles, user_vectors, user_interactions, user_profile, last, hist, ui,
          nOps, health_score_history, today, sessions, article_links, migration>>

\* The migration script before it is started.
NoMigration ==
  [pc |-> "off", pending |-> {}, batch |-> <<>>, errors |-> 0, attempt |-> 0,
   waits |-> <<>>, success |-> "none"]

\* A session that is between two operations; `ops` counts the operations it started.
IdleSession ==
  [pc |-> "idle", user |-> 0, article |-> 0, kind |-> "", v |-> None, read |-> None,
   new_vec |-> None, ops |-> 0, selected |-> FALSE]

\* ---------------------------------------------------------- article store

NoArticle == [present |-> FALSE, embedding |-> None, collected_at |-> 0]

\* The ids of the rows of the articles table.
Stored == {a \in ArticleIds : articles[a].present}
\* ... .not_.is_("embedding", "null")
Embedded == {a \in Stored : articles[a].embedding # None}

\* collector.collect: a new link is upserted with its embedding left null.
\* Ids are numbered in the order the articles are collected, and collected_at
\* grows with them.
CollectArticle(a) ==
  /\ ~articles[a].present
  /\ \A b \in ArticleIds : b < a => articles[b].present
  /\ articles' = [articles EXCEPT ![a] =
                    [present |-> TRUE, embedding |-> None, collected_at |-> a]]
  /\ UNCHANGED <<user_vectors, user_interactions, user_profile, last, hist, ui, nOps>>
  /\ UNCHANGED <<health_score_history, today, sessions>>
  /\ UNCHANGED scripts

\* The embedding worker fills the embedding of a pending article.
EmbedArticle(a) ==
  /\ articles[a].present
  /\ articles[a].embedding = None
  /\ articles' = [articles EXCEPT ![a].embedding = RInt(Corpus[a])]
  /\ UNCHANGED <<user_vectors, user_interactions, user_profile, last, hist, ui, nOps>>
  /\ UNCHANGED <<health_score_history, today, sessions>>
  /\ UNCHANGED scripts

\* ------------------------------------------------------------ user profile

\* select ... from user_profile where user_id = u
ProfileRows(profile, u) == SelectSeq(profile, LAMBDA r : r.user_id = u)

\* EnsureUserProfile writing the fresh row over an existing one.
EnsureUserProfileReset(profile, u) ==
  IF ProfileRows(profile, u) = <<>>
  THEN Append(profile, [user_id |-> u, onboarded |-> FALSE])
  ELSE [i \in 1..Len(profile) |->
          IF profile[i].user_id = u THEN [user_id |-> u, onboarded |-> FALSE]
          ELSE profile[i]]

\* RankingEngine._ensure_user_profile
EnsureUserProfile(profile, u) ==
  IF ProfileRows(profile, u) = <<>>
  THEN Append(profile, [user_id |-> u, onboarded |-> FALSE])
  ELSE profile

\* The select of is_onboarded: the onboarded column of the first row, else False.
ReadOnboarded(profile, u) ==
  LET rows == ProfileRows(profile, u)
  IN  IF rows # <<>> THEN rows[1].onboarded ELSE FALSE

\* update user_profile set onboarded = true where user_id = u
UpdateOnboarded(profile, u) ==
  [i \in 1..Len(profile) |->
     IF profile[i].user_id = u THEN [profile[i] EXCEPT !.onboarded = TRUE]
     ELSE profile[i]]

\* ------------------------------------------------------------ user vector

\* GetUserVector finding no row.
GetUserVectorMissing(vecs, u) == None

\* RankingEngine.get_user_vector
GetUserVector(vecs, u) == vecs[u]

\* RankingEngine._save_user_vector
SaveUserVector(vecs, u, vector) == [vecs EXCEPT ![u] = vector]

\* ------------------------------------------------------- interaction log

InteractionTypes == {"view", "deep_dive", "not_interested"}

SameKey(r, row) ==
  /\ r.user_id = row.user_id
  /\ r.article_id = row.article_id
  /\ r.interaction_type = row.interaction_type

\* UpsertInteraction as a plain insert.
InsertInteraction(rows, row) == Append(rows, row)

\* upsert(row, on_conflict="user_id,article_id,interaction_type")
UpsertInteraction(rows, row) ==
  IF \E i \in 1..Len(rows) : SameKey(rows[i], row)
  THEN [i \in 1..Len(rows) |-> IF SameKey(rows[i], row) THEN row ELSE rows[i]]
  ELSE Append(rows, row)

\* RankingEngine._record_interaction
RecordInteraction(rows, u, a, kind) ==
  UpsertInteraction(rows, [user_id |-> u, article_id |-> a, interaction_type |-> kind])

\* ------------------------------------------------------- call records

\* The record of a call: what it was given, what it found, what it did and what
\* it returned.
\*   article, kind   the arguments of a feedback call
\*   F, N            rank's filter_strength (hundredths) and top_n
\*   votes           the number of ids in complete_onboarding's two lists
\*   shown           the number of sample articles the onboarding page showed
\*   before          the user's stored vector when the call started
\*   hadRow          whether the user had a user_profile row then
\*   emb             the embedding of `article` then (None: no row, or null)
\*   existed         whether the interaction row (user, article, kind) existed then
\*   corpus          rank: the number of rows of the articles table then
\*   error           the call raised (a database call failed)
\*   logged          the interaction upsert was executed
\*   wrote           _save_user_vector was executed
\*   flag            the boolean returned (is_onboarded)
\*   path, items     rank: the branch taken ("blend", "latest") and the list
\*                   returned, each item with the retrieval it came from
\*   list            group_similar_articles: the ids of its argument, in order
\*   embeddings      the embeddings it fetched: id -> "zero" | "vec" (zero norm or not)
\*   cosines         the cosine of each pair of them, in hundredths
\*   grouped         the groups it returned: representative id and related ids
\*   read            the vector an interleaved feedback had read before it wrote
\*   changed         record_health_snapshot: the table changed
\*   types, result   a read: the interaction types asked for and what it returned
\*   args            the arguments of a function evaluated on its own
NoCall ==
  [op |-> "none", user |-> 0, article |-> 0, kind |-> "", F |-> 0, N |-> 0, votes |-> 0,
   shown |-> 0, before |-> None, hadRow |-> FALSE, emb |-> None, existed |-> FALSE,
   corpus |-> 0, error |-> FALSE, logged |-> FALSE, wrote |-> FALSE, flag |-> FALSE,
   path |-> "", items |-> <<>>, list |-> <<>>, embeddings |-> <<>>, cosines |-> <<>>,
   grouped |-> <<>>, read |-> None, changed |-> FALSE, types |-> {}, result |-> <<>>,
   args |-> <<>>]

Call(op, u) ==
  [NoCall EXCEPT !.op = op, !.user = u, !.before = user_vectors[u],
                 !.hadRow = (ProfileRows(user_profile, u) # <<>>)]

\* History of a user's vector: u0 is the vector as it was last initialised (by the
\* first positive feedback, by rank's cold start or by onboarding), fed the largest
\* norm among the embeddings given as feedback since.
\* completed: complete_onboarding has returned for the user.
NoHist == [u0 |-> None, fed |-> RZero, completed |-> FALSE]

\* The history after a call that leaves user u's vector at `now`, having used the
\* embedding v as feedback (v = None: an initialisation, or no vector use).
HistAfter(h, was, now, v) ==
  IF now = None THEN h
  ELSE IF was = None \/ v = None
       THEN [h EXCEPT !.u0 = now, !.fed = IF v = None THEN RZero ELSE Norm(v)]
  ELSE [h EXCEPT !.fed = RMax(h.fed, Norm(v))]

\* ---------------------------------------------------------------- feedback

\* The rates of record_view, record_deep_dive, record_not_interested.
Alpha(kind) ==
  CASE kind = "view" -> Rat(3, 100)
    [] kind = "deep_dive" -> Rat(15, 100)
    [] kind = "not_interested" -> Rat(-2, 10)

\* The database calls of a feedback operation, in the order they are made; one of
\* them may raise.
FeedbackCalls == {"interaction", "article", "get_vector", "save_vector"}
FailPoints == FeedbackCalls \cup {"none"}

\* np.array([...embedding of each row...]).mean(axis=0) over the rows S (non-empty).
RECURSIVE SumEmbeddings(_)
SumEmbeddings(S) ==
  IF S = {} THEN RZero
  ELSE LET a == CHOOSE x \in S : TRUE
       IN  RAdd(articles[a].embedding, SumEmbeddings(S \ {a}))
MeanEmbedding(S) == RDiv(SumEmbeddings(S), RInt(Cardinality(S)))

\* RankingEngine._get_article_embedding
GetArticleEmbedding(a) ==
  IF ~articles[a].present \/ articles[a].embedding = None THEN None
  ELSE articles[a].embedding

\* alpha >= 0:  new_vec = (1 - alpha) * u + alpha * v
PositiveUpdate(u, v, alpha) ==
  RAdd(RMul(RSub(ROne, alpha), u), RMul(alpha, v))

\* NegativeUpdate without its rescaling.
NegativeUpdateNoRescale(u, v, alpha) ==
  RSub(RMul(RAdd(ROne, Norm(alpha)), u), RMul(Norm(alpha), v))

\* NegativeUpdate rescaling to the norm of v.
NegativeUpdateToArticleNorm(u, v, alpha) ==
  LET strength == Norm(alpha)
      new_vec == RSub(RMul(RAdd(ROne, strength), u), RMul(strength, v))
      norm == Norm(new_vec)
  IN  IF RLt(RZero, norm) THEN RMul(new_vec, RDiv(Norm(v), norm)) ELSE new_vec

\* alpha < 0:  new_vec = (1 + s) * u - s * v, rescaled to the norm of u
NegativeUpdate(u, v, alpha) ==
  LET strength == Norm(alpha)
      new_vec == RSub(RMul(RAdd(ROne, strength), u), RMul(strength, v))
      norm == Norm(new_vec)
  IN  IF RLt(RZero, norm) THEN RMul(new_vec, RDiv(Norm(u), norm)) ELSE new_vec

\* ApplyFeedback with every database error swallowed.
ApplyFeedbackSwallow(vecs, u, a, alpha, fail) ==
  LET same == [vectors |-> vecs, wrote |-> FALSE, error |-> FALSE, used |-> None]
      v == GetArticleEmbedding(a)
      user_vec == GetUserVector(vecs, u)
      save(x) == IF fail = "save_vector" THEN same
                 ELSE [vectors |-> SaveUserVector(vecs, u, x), wrote |-> TRUE,
                       error |-> FALSE, used |-> v]
  IN  IF fail = "article" \/ v = None \/ fail = "get_vector" THEN same
      ELSE IF user_vec = None
           THEN IF RLt(RZero, alpha) THEN save(v) ELSE same
      ELSE IF RLe(RZero, alpha) THEN save(PositiveUpdate(user_vec, v, alpha))
      ELSE save(NegativeUpdate(user_vec, v, alpha))

\* ApplyFeedback seeding the vector of a user without one whatever the sign of alpha.
ApplyFeedbackSeedAlways(vecs, u, a, alpha, fail) ==
  LET same == [vectors |-> vecs, wrote |-> FALSE, error |-> FALSE, used |-> None]
      raise == [same EXCEPT !.error = TRUE]
      v == GetArticleEmbedding(a)
      user_vec == GetUserVector(vecs, u)
      save(x) == IF fail = "save_vector" THEN raise
                 ELSE [vectors |-> SaveUserVector(vecs, u, x), wrote |-> TRUE,
                       error |-> FALSE, used |-> v]
  IN  IF fail = "article" THEN raise
      ELSE IF v = None THEN same
      ELSE IF fail = "get_vector" THEN raise
      ELSE IF user_vec = None THEN save(v)
      ELSE IF RLe(RZero, alpha) THEN save(PositiveUpdate(user_vec, v, alpha))
      ELSE save(NegativeUpdate(user_vec, v, alpha))

\* ApplyFeedback whose failing save has written the vector before it raises.
ApplyFeedbackSaveThenRaise(vecs, u, a, alpha, fail) ==
  LET same == [vectors |-> vecs, wrote |-> FALSE, error |-> FALSE, used |-> None]
      raise == [same EXCEPT !.error = TRUE]
      v == GetArticleEmbedding(a)
      user_vec == GetUserVector(vecs, u)
      save(x) == IF fail = "save_vector"
                 THEN [raise EXCEPT !.vectors = SaveUserVector(vecs, u, x)]
                 ELSE [vectors |-> SaveUserVector(vecs, u, x), wrote |-> TRUE,
                       error |-> FALSE, used |-> v]
  IN  IF fail = "article" THEN raise
      ELSE IF v = None THEN same
      ELSE IF fail = "get_vector" THEN raise
      ELSE IF user_vec = None
           THEN IF RLt(RZero, alpha) THEN save(v) ELSE same
      ELSE IF RLe(RZero, alpha) THEN save(PositiveUpdate(user_vec, v, alpha))
      ELSE save(NegativeUpdate(user_vec, v, alpha))

\* RankingEngine._apply_feedback: the vectors table after the call, whether it
\* was written, and whether the call raised at database call `fail`.
ApplyFeedback(vecs, u, a, alpha, fail) ==
  LET same == [vectors |-> vecs, wrote |-> FALSE, error |-> FALSE, used |-> None]
      raise == [same EXCEPT !.error = TRUE]
      v == GetArticleEmbedding(a)
      user_vec == GetUserVector(vecs, u)
      save(x) == IF fail = "save_vector" THEN raise
                 ELSE [vectors |-> SaveUserVector(vecs, u, x), wrote |-> TRUE,
                       error |-> FALSE, used |-> v]
  IN  IF fail = "article" THEN raise
      ELSE IF v = None THEN same
      ELSE IF fail = "get_vector" THEN raise
      ELSE IF user_vec = None
           THEN IF RLt(RZero, alpha) THEN save(v) ELSE same
      ELSE IF RLe(RZero, alpha) THEN save(PositiveUpdate(user_vec, v, alpha))
      ELSE save(NegativeUpdate(user_vec, v, alpha))

\* record_view / record_deep_dive / record_not_interested: the interaction is
\* upserted, then the feedback applied.
RecordFeedback(u, a, kind, fail) ==
  /\ nOps < MaxOps
  /\ LET row == [user_id |-> u, article_id |-> a, interaction_type |-> kind]
         call == [Call("record_" \o kind, u) EXCEPT
                    !.article = a, !.kind = kind, !.emb = GetArticleEmbedding(a),
                    !.existed = (\E i \in 1..Len(user_interactions) :
                                   SameKey(user_interactions[i], row))]
     IN  IF fail = "interaction"
         THEN /\ last' = [call EXCEPT !.error = TRUE]
              /\ UNCHANGED <<user_interactions, user_vectors, hist>>
         ELSE LET fb == ApplyFeedback(user_vectors, u, a, Alpha(kind), fail)
              IN  /\ user_interactions' = RecordInteraction(user_interactions, u, a, kind)
                  /\ user_vectors' = fb.vectors
                  /\ hist' = IF fb.wrote
                             THEN [hist EXCEPT ![u] =
                                     HistAfter(hist[u], user_vectors[u], fb.vectors[u], fb.used)]
                             ELSE hist
                  /\ last' = [call EXCEPT !.logged = TRUE, !.wrote = fb.wrote,
                                          !.error = fb.error]
  /\ nOps' = nOps + 1
  /\ UNCHANGED <<articles, user_profile, ui>>
  /\ UNCHANGED <<health_score_history, today, sessions>>
  /\ UNCHANGED scripts

RecordView(u, a, fail) == RecordFeedback(u, a, "view", fail)
RecordDeepDive(u, a, fail) == RecordFeedback(u, a, "deep_dive", fail)
RecordNotInterested(u, a, fail) == RecordFeedback(u, a, "not_interested", fail)

\* -------------------------------------------------------------- onboarding

\* RankingEngine.is_onboarded
IsOnboarded(u) ==
  /\ nOps < MaxOps
  /\ user_profile' = EnsureUserProfile(user_profile, u)
  /\ last' = [Call("is_onboarded", u) EXCEPT !.flag = ReadOnboarded(user_profile', u)]
  /\ nOps' = nOps + 1
  /\ UNCHANGED <<articles, user_vectors, user_interactions, hist, ui>>
  /\ UNCHANGED <<health_score_history, today, sessions>>
  /\ UNCHANGED scripts

\* The weight of the disliked centroid in complete_onboarding.
NegWeight == Rat(3, 10)

\* The seed vector of complete_onboarding from the embedded liked rows `pos`
\* (non-empty) and the embedded disliked rows `neg`.
OnboardingSeed(pos, neg) ==
  LET avg == MeanEmbedding(pos)
      shifted == RSub(avg, RMul(NegWeight, MeanEmbedding(neg)))
      norm == Norm(shifted)
  IN  IF neg = {} THEN avg
      ELSE IF RLt(RZero, norm) THEN RMul(shifted, RDiv(Norm(avg), norm))
      ELSE shifted

\* The user_vectors table after the vector part of complete_onboarding
\* (liked_ids, disliked_ids: the sets of the ids of the two lists).
OnboardingVectors(vecs, u, liked_ids, disliked_ids) ==
  LET pos == liked_ids \cap Embedded
      neg == disliked_ids \cap Embedded
  IN  IF liked_ids # {} /\ pos # {}
      THEN SaveUserVector(vecs, u, OnboardingSeed(pos, neg))
      ELSE vecs

\* Whether that part writes the vector.
OnboardingWrites(liked_ids) == liked_ids # {} /\ liked_ids \cap Embedded # {}

\* RankingEngine.complete_onboarding, called directly.
CompleteOnboarding(u, liked_ids, disliked_ids) ==
  /\ nOps < MaxOps
  /\ user_vectors' = OnboardingVectors(user_vectors, u, liked_ids, disliked_ids)
  /\ user_profile' = UpdateOnboarded(user_profile, u)
  /\ hist' = [hist EXCEPT ![u] =
               [(IF OnboardingWrites(liked_ids)
                 THEN HistAfter(hist[u], user_vectors[u], user_vectors'[u], None)
                 ELSE hist[u]) EXCEPT !.completed = TRUE]]
  /\ last' = [Call("complete_onboarding", u) EXCEPT
                !.wrote = OnboardingWrites(liked_ids),
                !.votes = Cardinality(liked_ids) + Cardinality(disliked_ids),
                !.args = [liked |-> liked_ids, disliked |-> disliked_ids]]
  /\ nOps' = nOps + 1
  /\ UNCHANGED <<articles, user_interactions, ui>>
  /\ UNCHANGED <<health_score_history, today, sessions>>
  /\ UNCHANGED scripts

\* ------------------------------------------------------ stored procedures

Min(a, b) == IF a <= b THEN a ELSE b
Max(a, b) == IF a >= b THEN a ELSE b

Range(s) == {s[i] : i \in 1..Len(s)}

\* The elements of a set of numbers in increasing order.
RECURSIVE Sorted(_)
Sorted(S) ==
  IF S = {} THEN <<>>
  ELSE LET m == CHOOSE x \in S : \A y \in S : x <= y
       IN  <<m>> \o Sorted(S \ {m})

\* The sequences of k distinct elements of S.
RECURSIVE InjSeqs(_, _)
InjSeqs(S, k) ==
  IF k = 0 THEN {<<>>}
  ELSE UNION {{Append(s, x) : x \in S \ Range(s)} : s \in InjSeqs(S, k - 1)}

\* Cosine similarity in hundredths, as match_articles reports it (D = 1: the sign
\* of the product; 0 stands for the undefined cosine with a zero vector).
Cosine(q, e) ==
  LET p == q[1] * e[1]
  IN  IF p > 0 THEN 100 ELSE IF p < 0 THEN -100 ELSE 0

\* match_articles(query_vector, match_count): the match_count rows with an
\* embedding that are nearest to the query by cosine, nearest first, ties in any
\* order.
MatchArticles(q, match_count) ==
  LET k == Min(Max(match_count, 0), Cardinality(Embedded))
      c(a) == Cosine(q, articles[a].embedding)
  IN  {s \in InjSeqs(Embedded, k) :
         /\ \A i, j \in 1..k : i < j => c(s[i]) >= c(s[j])
         /\ \A a \in Embedded \ Range(s) : \A i \in 1..k : c(a) <= c(s[i])}

\* random_articles(pick_count): pick_count rows (all of them when there are
\* fewer) drawn without replacement, with or without an embedding.
RandomArticles(pick_count) ==
  InjSeqs(Stored, Min(Max(pick_count, 0), Cardinality(Stored)))

\* ------------------------------------------------------------------- rank

\* Python's int() of the rational n / d (d > 0): truncation towards zero.
Trunc(n, d) == IF n >= 0 THEN n \div d ELSE -((-n) \div d)

\* SimilarCount with the dial read the other way round.
SimilarCountInverted(f, top_n) == Max(1, top_n - Trunc(top_n * f, 100))

\* similar_count = max(1, int(top_n * filter_strength)), filter_strength = f / 100.
SimilarCount(f, top_n) == Max(1, Trunc(top_n * f, 100))

Item(a, sim, source) == [id |-> a, similarity |-> sim, source |-> source]

\* results = similar_resp.data
SimilarItems(q, sim) ==
  [i \in 1..Len(sim) |-> Item(sim[i], Cosine(q, articles[sim[i]].embedding), "similar")]

\* AppendRandom without the test against similar_ids.
RECURSIVE AppendRandomNoDedup(_, _, _, _)
AppendRandomNoDedup(results, random, similar_ids, top_n) ==
  IF random = <<>> THEN results
  ELSE IF Len(results) < top_n
       THEN AppendRandomNoDedup(Append(results, Item(Head(random), 0, "random")),
                                Tail(random), similar_ids, top_n)
       ELSE AppendRandomNoDedup(results, Tail(random), similar_ids, top_n)

\* AppendRandom putting each random row in front of the list.
RECURSIVE AppendRandomInFront(_, _, _, _)
AppendRandomInFront(results, random, similar_ids, top_n) ==
  IF random = <<>> THEN results
  ELSE LET r == Head(random)
       IN  IF r \notin similar_ids /\ Len(results) < top_n
           THEN AppendRandomInFront(<<Item(r, 0, "random")>> \o results, Tail(random),
                                    similar_ids, top_n)
           ELSE AppendRandomInFront(results, Tail(random), similar_ids, top_n)

\* for r in random_resp.data: if r["id"] not in similar_ids and len(results) < top_n: ...
RECURSIVE AppendRandom(_, _, _, _)
AppendRandom(results, random, similar_ids, top_n) ==
  IF random = <<>> THEN results
  ELSE LET r == Head(random)
       IN  IF r \notin similar_ids /\ Len(results) < top_n
           THEN AppendRandom(Append(results, Item(r, 0, "random")), Tail(random),
                             similar_ids, top_n)
           ELSE AppendRandom(results, Tail(random), similar_ids, top_n)

\* The slack rank adds to the number of random rows it asks for.
RandomSlack == 10

\* The list rank builds from the similarity rows `sim` and the random rows `random`.
BlendResults(q, sim, random, random_count, top_n) ==
  IF random_count > 0
  THEN AppendRandom(SimilarItems(q, sim), random, Range(sim), top_n)
  ELSE SimilarItems(q, sim)

\* RankingEngine._get_latest: rows by collected_at, newest first, at most `limit`.
RECURSIVE Newest(_, _)
Newest(S, limit) ==
  IF S = {} \/ limit <= 0 THEN <<>>
  ELSE LET m == CHOOSE a \in S :
                  \A b \in S : articles[b].collected_at <= articles[a].collected_at
       IN  <<Item(m, 0, "latest")>> \o Newest(S \ {m}, limit - 1)
GetLatest(limit) == Newest(Stored, limit)

\* InitUserVector taking the embedding of one row for the mean of all.
InitUserVectorOfOneRow ==
  IF Embedded = {} THEN None
  ELSE articles[CHOOSE a \in Embedded : \A b \in Embedded : a <= b].embedding

\* RankingEngine._init_user_vector: the mean of the embeddings (up to 100 rows;
\* the store of the model holds fewer), [] when there is none.
InitUserVector == IF Embedded = {} THEN None ELSE MeanEmbedding(Embedded)

\* ------------------------------------------------------ reason annotation

\* cats of explain_recommendation: the tags of the category field, in its order.
CategoriesOf(a) == Sorted(CorpusTags[a])

\* int(similarity * 100) for a similarity of h hundredths: the float product falls
\* short of h for 0.29, 0.57 and 0.58.
Pct(h) == IF h \in {29, 57, 58} THEN h - 1 ELSE h

\* ExplainRecommendation with the similarity branches taken from 0.7 and 0.3 on.
ExplainRecommendationInclusive(a, similarity, user_top_categories) ==
  LET cats == CategoriesOf(a)
      matching == SelectSeq(cats, LAMBDA c : c \in user_top_categories)
  IN  IF similarity >= 70 THEN [template |-> "match", arg |-> Pct(similarity)]
      ELSE IF matching # <<>> THEN [template |-> "category", arg |-> matching[1]]
      ELSE IF similarity >= 30 THEN [template |-> "near", arg |-> Pct(similarity)]
      ELSE IF cats # <<>> THEN [template |-> "new_view", arg |-> cats[1]]
      ELSE [template |-> "diversity", arg |-> 0]

\* RankingEngine.explain_recommendation, the text as [template, arg]; similarity
\* in hundredths, user_top_categories as a set.
ExplainRecommendation(a, similarity, user_top_categories) ==
  LET cats == CategoriesOf(a)
      matching == SelectSeq(cats, LAMBDA c : c \in user_top_categories)
  IN  IF similarity > 70 THEN [template |-> "match", arg |-> Pct(similarity)]
      ELSE IF matching # <<>> THEN [template |-> "category", arg |-> matching[1]]
      ELSE IF similarity > 30 THEN [template |-> "near", arg |-> Pct(similarity)]
      ELSE IF cats # <<>> THEN [template |-> "new_view", arg |-> cats[1]]
      ELSE [template |-> "diversity", arg |-> 0]

\* ViewedIds without the filter on the user.
ViewedIdsOfEveryUser(rows, u) ==
  {rows[i].article_id : i \in {j \in 1..Len(rows) :
      rows[j].interaction_type \in {"view", "deep_dive"}}}

\* The article ids of the user's view and deep_dive rows.
ViewedIds(rows, u) ==
  {rows[i].article_id : i \in {j \in 1..Len(rows) :
      rows[j].user_id = u /\ rows[j].interaction_type \in {"view", "deep_dive"}}}

\* Counter(all_cats)[c]: the number of viewed stored articles tagged c.
CategoryCount(rows, u, c) ==
  Cardinality({a \in ViewedIds(rows, u) \cap Stored : c \in CorpusTags[a]})

\* RankingEngine._get_user_top_categories: the top_n most common categories (as
\* a set; which of equally common ones are kept is not fixed).
UserTopCategories(rows, u, top_n) ==
  LET seen == {c \in OnboardingCategories : CategoryCount(rows, u, c) > 0}
  IN  {T \in SUBSET seen :
         /\ Cardinality(T) = Min(top_n, Cardinality(seen))
         /\ \A c \in T, d \in seen \ T :
              CategoryCount(rows, u, c) >= CategoryCount(rows, u, d)}

\* The number of categories rank asks for (the default of top_n).
TopCategories == 3

\* r["reason"] = self.explain_recommendation(r, r.get("similarity", 0), top_cats)
Annotate(results, top_cats) ==
  [i \in 1..Len(results) |->
     [id |-> results[i].id, similarity |-> results[i].similarity,
      source |-> results[i].source,
      reason |-> ExplainRecommendation(results[i].id, results[i].similarity, top_cats)]]

\* What rank can do on the tables `vecs` and `rows`: the branch taken, the list
\* returned, the user_vectors table afterwards and whether it was written.
RankOutcomes(vecs, rows, u, f, top_n) ==
  LET stored == GetUserVector(vecs, u)
      user_vec == IF stored = None THEN InitUserVector ELSE stored
      similar_count == SimilarCount(f, top_n)
      random_count == top_n - similar_count
  IN  IF user_vec = None
      THEN {[path |-> "latest", items |-> GetLatest(top_n), vectors |-> vecs,
             wrote |-> FALSE]}
      ELSE {[path |-> "blend",
             items |-> Annotate(BlendResults(user_vec, sim, random, random_count, top_n),
                                top_cats),
             vectors |-> IF stored = None THEN SaveUserVector(vecs, u, user_vec) ELSE vecs,
             wrote |-> (stored = None)] :
               sim \in MatchArticles(user_vec, similar_count),
               random \in RandomArticles(random_count + RandomSlack),
               top_cats \in UserTopCategories(rows, u, TopCategories)}

\* RankingEngine.rank(filter_strength = f / 100, top_n)
Rank(u, f, top_n) ==
  /\ nOps < MaxOps
  /\ \E out \in RankOutcomes(user_vectors, user_interactions, u, f, top_n) :
       /\ user_vectors' = out.vectors
       /\ hist' = IF out.wrote
                  THEN [hist EXCEPT ![u] = HistAfter(hist[u], None, out.vectors[u], None)]
                  ELSE hist
       /\ last' = [Call("rank", u) EXCEPT !.F = f, !.N = top_n,
                                          !.corpus = Cardinality(Stored),
                                          !.path = out.path, !.wrote = out.wrote,
                                          !.items = out.items]
  /\ nOps' = nOps + 1
  /\ UNCHANGED <<articles, user_interactions, user_profile, ui>>
  /\ UNCHANGED <<health_score_history, today, sessions>>
  /\ UNCHANGED scripts

\* ------------------------------------------------- onboarding page (app.py)

\* The rows of one category query of get_onboarding_articles:
\* .ilike("category", "%cat%").not_.is_("embedding", "null").limit(per_cat)
CategoryRows(cat, per_cat) ==
  LET rows == Sorted({a \in Embedded : cat \in CorpusTags[a]})
  IN  SubSeq(rows, 1, Min(per_cat, Len(rows)))

\* results.extend(resp.data) for each category of the list, in its order.
RECURSIVE CategoryResults(_, _)
CategoryResults(categories, per_cat) ==
  IF categories = <<>> THEN <<>>
  ELSE CategoryRows(Head(categories), per_cat)
         \o CategoryResults(Tail(categories), per_cat)

\* for r in random_resp.data: if r["id"] not in existing_ids and len(results) < count: ...
RECURSIVE PadRandom(_, _, _, _)
PadRandom(results, random, existing_ids, count) ==
  IF random = <<>> THEN results
  ELSE IF Head(random) \notin existing_ids /\ Len(results) < count
       THEN PadRandom(Append(results, Head(random)), Tail(random), existing_ids, count)
       ELSE PadRandom(results, Tail(random), existing_ids, count)

\* RankingEngine.get_onboarding_articles: the lists of ids it can return.
GetOnboardingArticles(categories, count) ==
  LET per_cat == Max(3, count \div Max(1, Len(categories)))
      results == CategoryResults(categories, per_cat)
      padded == IF Len(results) < count
                THEN {PadRandom(results, random, Range(results), count) :
                        random \in RandomArticles(count - Len(results) + 5)}
                ELSE {results}
  IN  {SubSeq(r, 1, Min(count, Len(r))) : r \in padded}

\* RankingEngine.get_onboarding_articles, called directly.
GetOnboardingArticlesCall(u, categories, count) ==
  /\ nOps < MaxOps
  /\ \E samples \in GetOnboardingArticles(categories, count) :
       last' = [Call("get_onboarding_articles", u) EXCEPT
                  !.args = [categories |-> categories, count |-> count],
                  !.result = samples]
  /\ nOps' = nOps + 1
  /\ UNCHANGED <<articles, user_vectors, user_interactions, user_profile, hist, ui>>
  /\ UNCHANGED <<health_score_history, today, sessions>>
  /\ UNCHANGED scripts

\* The number of sample articles render_onboarding asks for.
OnboardCount == 15

\* The session state of the onboarding page: onboard_step, onboard_categories,
\* onboard_articles (with whether the key is set) and onboard_votes.
NoVotes == [a \in {} |-> "like"]
FreshPage == [step |-> 1, categories |-> {}, loaded |-> FALSE, shown |-> {},
              votes |-> NoVotes]

\* main() up to the gate: is_onboarded() is false, so the onboarding page is drawn.
\* The call creates the user's profile row when there is none.
OnboardingGate(u) ==
  /\ ~ReadOnboarded(EnsureUserProfile(user_profile, u), u)

\* Step 1: the categories are ticked and "next" is pressed.
UiSelectCategories(u, selected) ==
  /\ OnboardingGate(u)
  /\ ui[u].step = 1
  /\ selected # {}
  /\ ui' = [ui EXCEPT ![u] = [@ EXCEPT !.step = 2, !.categories = selected]]
  /\ user_profile' = EnsureUserProfile(user_profile, u)
  /\ UNCHANGED <<articles, user_vectors, user_interactions, last, hist, nOps>>
  /\ UNCHANGED <<health_score_history, today, sessions>>
  /\ UNCHANGED scripts

\* Step 2, first run: the sample articles are fetched and shown.
UiShowSamples(u) ==
  /\ OnboardingGate(u)
  /\ ui[u].step = 2 /\ ~ui[u].loaded
  /\ \E samples \in GetOnboardingArticles(Sorted(ui[u].categories), OnboardCount) :
       /\ samples # <<>>
       /\ ui' = [ui EXCEPT ![u] = [@ EXCEPT !.loaded = TRUE, !.shown = Range(samples),
                                            !.votes = NoVotes]]
  /\ user_profile' = EnsureUserProfile(user_profile, u)
  /\ UNCHANGED <<articles, user_vectors, user_interactions, last, hist, nOps>>
  /\ UNCHANGED <<health_score_history, today, sessions>>
  /\ UNCHANGED scripts

\* Step 2, first run, no article in the store: onboarding is skipped.
UiSkipOnboarding(u) ==
  /\ OnboardingGate(u)
  /\ ui[u].step = 2 /\ ~ui[u].loaded
  /\ <<>> \in GetOnboardingArticles(Sorted(ui[u].categories), OnboardCount)
  /\ LET ensured == EnsureUserProfile(user_profile, u)
     IN  /\ user_profile' = UpdateOnboarded(ensured, u)
         /\ user_vectors' = OnboardingVectors(user_vectors, u, {}, {})
         /\ last' = [Call("ui_skip", u) EXCEPT !.votes = 0, !.shown = 0]
  /\ hist' = [hist EXCEPT ![u].completed = TRUE]
  /\ ui' = [ui EXCEPT ![u] = FreshPage]
  /\ UNCHANGED <<articles, user_interactions, nOps>>
  /\ UNCHANGED <<health_score_history, today, sessions>>
  /\ UNCHANGED scripts

\* Step 2: a like or a dislike button of a shown article is pressed.
UiVote(u, a, vote) ==
  /\ OnboardingGate(u)
  /\ ui[u].step = 2 /\ ui[u].loaded
  /\ a \in ui[u].shown
  /\ ui' = [ui EXCEPT ![u].votes =
              [x \in DOMAIN ui[u].votes \cup {a} |->
                 IF x = a THEN vote ELSE ui[u].votes[x]]]
  /\ user_profile' = EnsureUserProfile(user_profile, u)
  /\ UNCHANGED <<articles, user_vectors, user_interactions, last, hist, nOps>>
  /\ UNCHANGED <<health_score_history, today, sessions>>
  /\ UNCHANGED scripts

\* FinishEnabled with a button that a single vote enables.
FinishEnabledByOneVote(votes) == Cardinality(DOMAIN votes) >= 1

\* The finish button: disabled = voted_count < 3
FinishEnabled(votes) == Cardinality(DOMAIN votes) >= 3

\* Step 2: the finish button is pressed.
UiFinish(u) ==
  /\ OnboardingGate(u)
  /\ ui[u].step = 2 /\ ui[u].loaded
  /\ FinishEnabled(ui[u].votes)
  /\ LET votes == ui[u].votes
         liked_ids == {k \in DOMAIN votes : votes[k] = "like"}
         disliked_ids == {k \in DOMAIN votes : votes[k] = "dislike"}
         ensured == EnsureUserProfile(user_profile, u)
     IN  /\ user_profile' = UpdateOnboarded(ensured, u)
         /\ user_vectors' = OnboardingVectors(user_vectors, u, liked_ids, disliked_ids)
         /\ hist' = [hist EXCEPT ![u] =
                      [(IF OnboardingWrites(liked_ids)
                        THEN HistAfter(hist[u], user_vectors[u], user_vectors'[u], None)
                        ELSE hist[u]) EXCEPT !.completed = TRUE]]
         /\ last' = [Call("ui_finish", u) EXCEPT
                       !.wrote = OnboardingWrites(liked_ids),
                       !.votes = Cardinality(liked_ids) + Cardinality(disliked_ids),
                       !.shown = Cardinality(ui[u].shown)]
  /\ ui' = [ui EXCEPT ![u] = FreshPage]
  /\ UNCHANGED <<articles, user_interactions, nOps>>
  /\ UNCHANGED <<health_score_history, today, sessions>>
  /\ UNCHANGED scripts

\* ---------------------------------------------------------------- grouping

\* The embeddings enter group_similar_articles through three facts only: which
\* ids have one (the keys of the dict `embeddings`), whether its norm is zero
\* ("zero") or not ("vec"), and the cosine of each pair, here in hundredths.
Pairs(ids) == {p \in ids \X ids : p[1] < p[2]}

\* float(np.dot(emb_i, emb_j) / (norm_i * norm_j)), in hundredths.
PairCosine(cosines, i, j) ==
  IF i = j THEN 100 ELSE cosines[<<Min(i, j), Max(i, j)>>]

\* The inner loop without used.add(oid).
RECURSIVE AbsorbRelatedNoMark(_, _, _, _, _, _, _)
AbsorbRelatedNoMark(others, aid, related, used, embeddings, cosines, threshold) ==
  IF others = <<>> THEN [related |-> related, used |-> used]
  ELSE LET oid == Head(others)
           skip == \/ oid \in used
                   \/ oid \notin DOMAIN embeddings
                   \/ embeddings[oid] = "zero"
                   \/ PairCosine(cosines, aid, oid) < threshold
       IN  IF skip
           THEN AbsorbRelatedNoMark(Tail(others), aid, related, used,
                                    embeddings, cosines, threshold)
           ELSE AbsorbRelatedNoMark(Tail(others), aid, Append(related, oid), used,
                                    embeddings, cosines, threshold)

\* The inner loop comparing with every member of the group, not the representative only.
RECURSIVE AbsorbRelatedAnyMember(_, _, _, _, _, _, _)
AbsorbRelatedAnyMember(others, aid, related, used, embeddings, cosines, threshold) ==
  IF others = <<>> THEN [related |-> related, used |-> used]
  ELSE LET oid == Head(others)
           skip == \/ oid \in used
                   \/ oid \notin DOMAIN embeddings
                   \/ embeddings[oid] = "zero"
                   \/ \A m \in {aid} \cup Range(related) :
                        PairCosine(cosines, m, oid) < threshold
       IN  IF skip
           THEN AbsorbRelatedAnyMember(Tail(others), aid, related, used,
                                       embeddings, cosines, threshold)
           ELSE AbsorbRelatedAnyMember(Tail(others), aid, Append(related, oid),
                                       used \cup {oid}, embeddings, cosines, threshold)

\* for other in articles: ... the inner loop of group_similar_articles for the
\* representative aid; returns the related ids and the grown `used` set.
RECURSIVE AbsorbRelated(_, _, _, _, _, _, _)
AbsorbRelated(others, aid, related, used, embeddings, cosines, threshold) ==
  IF others = <<>> THEN [related |-> related, used |-> used]
  ELSE LET oid == Head(others)
           skip == \/ oid \in used
                   \/ oid \notin DOMAIN embeddings
                   \/ embeddings[oid] = "zero"
                   \/ PairCosine(cosines, aid, oid) < threshold
       IN  IF skip
           THEN AbsorbRelated(Tail(others), aid, related, used,
                              embeddings, cosines, threshold)
           ELSE AbsorbRelated(Tail(others), aid, Append(related, oid),
                              used \cup {oid}, embeddings, cosines, threshold)

\* for article in articles: ... the outer loop, from position i on.
RECURSIVE GroupLoop(_, _, _, _, _, _, _)
GroupLoop(list, i, grouped, used, embeddings, cosines, threshold) ==
  IF i > Len(list) THEN grouped
  ELSE LET aid == list[i]
       IN  IF aid \in used
           THEN GroupLoop(list, i + 1, grouped, used, embeddings, cosines, threshold)
           ELSE IF aid \notin DOMAIN embeddings \/ embeddings[aid] = "zero"
           THEN GroupLoop(list, i + 1,
                          Append(grouped, [id |-> aid, related |-> <<>>]),
                          used \cup {aid}, embeddings, cosines, threshold)
           ELSE LET r == AbsorbRelated(list, aid, <<>>, used \cup {aid},
                                       embeddings, cosines, threshold)
                IN  GroupLoop(list, i + 1,
                              Append(grouped, [id |-> aid, related |-> r.related]),
                              r.used, embeddings, cosines, threshold)

\* RankingEngine.group_similar_articles on the ids of `articles`.
GroupSimilarArticles(list, embeddings, cosines, threshold) ==
  IF list = <<>> THEN <<>>
  ELSE GroupLoop(list, 1, <<>>, {}, embeddings, cosines, threshold)

\* threshold=0.85, in hundredths.
Threshold == 85

\* The call of the feed page on the list and embeddings at hand.
GroupSimilarArticlesCall ==
  /\ last.op = "none"
  /\ last' = [last EXCEPT !.op = "group_similar_articles",
                !.grouped = GroupSimilarArticles(last.list, last.embeddings,
                                                 last.cosines, Threshold)]
  /\ UNCHANGED <<articles, user_vectors, user_interactions, user_profile, hist, ui, nOps>>
  /\ UNCHANGED <<health_score_history, today, sessions>>
  /\ UNCHANGED scripts

\* ------------------------------------------- interleaved sessions of one user

\* The user of the sessions (tabs of one signed-in user).
SessionUser == 1

\* The vector _apply_feedback computes from the vector it read and the embedding
\* v; None: it saves nothing.
NewVectorUnweighted(user_vec, v, alpha) ==
  IF user_vec = None THEN IF RLt(RZero, alpha) THEN v ELSE None
  ELSE RAdd(user_vec, RMul(alpha, v))

NewVector(user_vec, v, alpha) ==
  IF user_vec = None THEN IF RLt(RZero, alpha) THEN v ELSE None
  ELSE IF RLe(RZero, alpha) THEN PositiveUpdate(user_vec, v, alpha)
  ELSE NegativeUpdate(user_vec, v, alpha)

\* record_*: the session starts a feedback operation with _record_interaction.
FbStart(s, a, kind) ==
  /\ sessions[s].pc = "idle" /\ sessions[s].ops < MaxSessionOps
  /\ user_interactions' = RecordInteraction(user_interactions, SessionUser, a, kind)
  /\ sessions' = [sessions EXCEPT ![s] =
                    [IdleSession EXCEPT !.pc = "fetch", !.user = SessionUser,
                                        !.article = a, !.kind = kind,
                                        !.ops = sessions[s].ops + 1]]
  /\ UNCHANGED <<articles, user_vectors, user_profile, last, hist, ui, nOps>>
  /\ UNCHANGED <<health_score_history, today>>
  /\ UNCHANGED scripts

\* _apply_feedback: v = self._get_article_embedding(article_id)
FbFetch(s) ==
  /\ sessions[s].pc = "fetch"
  /\ LET v == GetArticleEmbedding(sessions[s].article)
         u == sessions[s].user
     IN  /\ sessions' = [sessions EXCEPT ![s].v = v,
                                         ![s].pc = IF v = None THEN "idle" ELSE "read"]
         /\ hist' = IF v = None THEN hist
                    ELSE [hist EXCEPT ![u].fed = RMax(hist[u].fed, Norm(v))]
  /\ UNCHANGED <<articles, user_vectors, user_interactions, user_profile, last, ui, nOps>>
  /\ UNCHANGED <<health_score_history, today>>
  /\ UNCHANGED scripts

\* _apply_feedback: user_vec = self.get_user_vector(), and the computation.
FbRead(s) ==
  /\ sessions[s].pc = "read"
  /\ LET user_vec == GetUserVector(user_vectors, sessions[s].user)
         new_vec == NewVector(user_vec, sessions[s].v, Alpha(sessions[s].kind))
     IN  sessions' = [sessions EXCEPT ![s].read = user_vec, ![s].new_vec = new_vec,
                                      ![s].pc = IF new_vec = None THEN "idle" ELSE "write"]
  /\ UNCHANGED <<articles, user_vectors, user_interactions, user_profile, last, hist, ui,
                 nOps>>
  /\ UNCHANGED <<health_score_history, today>>
  /\ UNCHANGED scripts

\* _apply_feedback: self._save_user_vector(...)
FbWrite(s) ==
  /\ sessions[s].pc = "write"
  /\ user_vectors' = SaveUserVector(user_vectors, sessions[s].user, sessions[s].new_vec)
  /\ last' = [Call("record_" \o sessions[s].kind, sessions[s].user) EXCEPT
                !.article = sessions[s].article, !.kind = sessions[s].kind,
                !.emb = sessions[s].v, !.read = sessions[s].read,
                !.logged = TRUE, !.wrote = TRUE]
  /\ sessions' = [sessions EXCEPT ![s].pc = "idle"]
  /\ UNCHANGED <<articles, user_interactions, user_profile, hist, ui, nOps>>
  /\ UNCHANGED <<health_score_history, today>>
  /\ UNCHANGED scripts

\* Feedback operations of the sessions, one database call at a time.
SessionFeedbackNext ==
  \/ \E s \in Sessions, a \in ArticleIds, kind \in InteractionTypes : FbStart(s, a, kind)
  \/ \E s \in Sessions : FbFetch(s)
  \/ \E s \in Sessions : FbRead(s)
  \/ \E s \in Sessions : FbWrite(s)

\* insert into user_profile without a key on user_id.
InsertProfileNoKey(profile, u) ==
  [rows |-> Append(profile, [user_id |-> u, onboarded |-> FALSE]), error |-> FALSE]

\* insert into user_profile: user_id is the key of the table, so the insert of a
\* second row for a user is refused with an error.
InsertProfile(profile, u) ==
  IF ProfileRows(profile, u) # <<>>
  THEN [rows |-> profile, error |-> TRUE]
  ELSE [rows |-> Append(profile, [user_id |-> u, onboarded |-> FALSE]), error |-> FALSE]

\* is_onboarded, _ensure_user_profile: the select of the user's row.
EnsureSelect(s) ==
  /\ sessions[s].pc = "idle" /\ sessions[s].ops < MaxSessionOps
  /\ sessions' = [sessions EXCEPT ![s] =
                    [IdleSession EXCEPT
                       !.pc = IF ProfileRows(user_profile, SessionUser) # <<>>
                              THEN "flag" ELSE "insert",
                       !.user = SessionUser, !.selected = TRUE,
                       !.ops = sessions[s].ops + 1]]
  /\ UNCHANGED <<articles, user_vectors, user_interactions, user_profile, last, hist, ui,
                 nOps>>
  /\ UNCHANGED <<health_score_history, today>>
  /\ UNCHANGED scripts

\* is_onboarded, _ensure_user_profile: the insert after a select that found no row.
EnsureInsert(s) ==
  /\ sessions[s].pc = "insert"
  /\ LET r == InsertProfile(user_profile, sessions[s].user)
     IN  /\ user_profile' = r.rows
         /\ sessions' = [sessions EXCEPT ![s].pc = IF r.error THEN "idle" ELSE "flag"]
         /\ last' = IF r.error
                    THEN [Call("is_onboarded", sessions[s].user) EXCEPT !.error = TRUE]
                    ELSE last
  /\ UNCHANGED <<articles, user_vectors, user_interactions, hist, ui, nOps>>
  /\ UNCHANGED <<health_score_history, today>>
  /\ UNCHANGED scripts

\* is_onboarded: the select of the onboarded column, and the return.
EnsureReadFlag(s) ==
  /\ sessions[s].pc = "flag"
  /\ last' = [Call("is_onboarded", sessions[s].user) EXCEPT
                !.flag = ReadOnboarded(user_profile, sessions[s].user)]
  /\ sessions' = [sessions EXCEPT ![s].pc = "idle"]
  /\ UNCHANGED <<articles, user_vectors, user_interactions, user_profile, hist, ui, nOps>>
  /\ UNCHANGED <<health_score_history, today>>
  /\ UNCHANGED scripts

\* is_onboarded in the sessions, one database call at a time.
SessionEnsureNext ==
  \/ \E s \in Sessions : EnsureSelect(s)
  \/ \E s \in Sessions : EnsureInsert(s)
  \/ \E s \in Sessions : EnsureReadFlag(s)

\* ------------------------------------------------------------ health snapshot

\* dominant_category of a user without categories ("").
NoCategory == 0

\* The user's view and deep_dive rows (viewed_ids, one id per row).
ViewedRows(rows, u) ==
  SelectSeq(rows, LAMBDA r : r.user_id = u /\ r.interaction_type \in {"view", "deep_dive"})

\* int((entropy / max_entropy) * 100) for two categories counted c1 and c2 times
\* (1..6 each), as the floating-point expression evaluates.
DiversityOfTwo ==
  << <<100, 91, 81, 72, 65, 59>>, <<91, 100, 97, 91, 86, 81>>,
     <<81, 97, 100, 98, 95, 91>>, <<72, 91, 98, 100, 99, 97>>,
     <<65, 86, 95, 99, 100, 99>>, <<59, 81, 91, 97, 99, 100>> >>

\* diversity_score of the categories `seen` (at most two in the corpus).
DiversityScore(rows, u, seen) ==
  IF Cardinality(seen) <= 1 THEN 0
  ELSE LET c == CHOOSE x \in seen : TRUE
           d == CHOOSE x \in seen \ {c} : TRUE
       IN  DiversityOfTwo[CategoryCount(rows, u, c)][CategoryCount(rows, u, d)]

\* The odd fortieths whose double lies above them (d < 200: a quotient halfway
\* between two hundredths is an odd eighth, which is a double, or an odd
\* fortieth, which is not).
FortiethsAbove == {1, 9, 11, 13, 21, 27, 31, 37}

\* round(n / d, 2) in hundredths: to the nearest; a quotient halfway between
\* two goes to the even one when it is a double, else where its double lies.
RoundHundredths(n, d) ==
  LET fl == (100 * n) \div d
      twice == 2 * ((100 * n) % d)
      g == Gcd(n, d)
      up == IF d \div g = 40 THEN (n \div g) \in FortiethsAbove ELSE fl % 2 = 1
  IN  IF twice > d \/ (twice = d /\ up) THEN fl + 1 ELSE fl

RECURSIVE SumCounts(_, _, _)
SumCounts(rows, u, cats) ==
  IF cats = {} THEN 0
  ELSE LET c == CHOOSE x \in cats : TRUE
       IN  CategoryCount(rows, u, c) + SumCounts(rows, u, cats \ {c})

\* RankingEngine.get_info_health: the results it can return (the most common
\* category is any of the equally common ones).
GetInfoHealth(rows, u) ==
  LET total_viewed == Len(ViewedRows(rows, u))
      seen == {c \in OnboardingCategories : CategoryCount(rows, u, c) > 0}
      total == SumCounts(rows, u, seen)
      none == [diversity_score |-> 0, dominant_category |-> NoCategory,
               dominant_ratio |-> 0, total_viewed |-> total_viewed]
  IN  IF total_viewed = 0 \/ seen = {} THEN {none}
      ELSE {[diversity_score |-> DiversityScore(rows, u, seen),
             dominant_category |-> c,
             dominant_ratio |-> RoundHundredths(CategoryCount(rows, u, c), total),
             total_viewed |-> total_viewed] :
              c \in {x \in seen : \A y \in seen :
                       CategoryCount(rows, u, x) >= CategoryCount(rows, u, y)}}

SameSnapshotKey(r, row) == r.user_id = row.user_id /\ r.score_date = row.score_date

\* UpsertSnapshot as a plain insert.
InsertSnapshot(rows, row) == Append(rows, row)

\* upsert(row, on_conflict="user_id,score_date")
UpsertSnapshot(rows, row) ==
  IF \E i \in 1..Len(rows) : SameSnapshotKey(rows[i], row)
  THEN [i \in 1..Len(rows) |-> IF SameSnapshotKey(rows[i], row) THEN row ELSE rows[i]]
  ELSE Append(rows, row)

\* The row record_health_snapshot writes (of detail, the major diversity, which
\* is computed as the diversity score; the medium and minor ones come from the
\* titles, which the model does not hold).
SnapshotRow(u, day, health) ==
  [user_id |-> u, score_date |-> day, diversity |-> health.diversity_score,
   bias_ratio |-> health.dominant_ratio, top_category |-> health.dominant_category,
   major_diversity |-> health.diversity_score]

\* RankingEngine.record_health_snapshot
RecordHealthSnapshot(u) ==
  /\ \E health \in GetInfoHealth(user_interactions, u) :
       LET row == SnapshotRow(u, today, health)
           call == [Call("record_health_snapshot", u) EXCEPT
                      !.existed = (\E i \in 1..Len(health_score_history) :
                                     SameSnapshotKey(health_score_history[i], row))]
       IN  IF health.total_viewed = 0
           THEN /\ UNCHANGED health_score_history
                /\ last' = call
           ELSE /\ health_score_history' = UpsertSnapshot(health_score_history, row)
                /\ last' = [call EXCEPT !.wrote = TRUE,
                              !.changed = (health_score_history' # health_score_history)]
  /\ UNCHANGED <<articles, user_vectors, user_interactions, user_profile, hist, ui, nOps>>
  /\ UNCHANGED <<today, sessions>>
  /\ UNCHANGED scripts

\* Midnight: date.today() moves to the next day.
NextDay ==
  /\ today < MaxDays
  /\ today' = today + 1
  /\ UNCHANGED <<articles, user_vectors, user_interactions, user_profile, last, hist, ui,
                 nOps>>
  /\ UNCHANGED <<health_score_history, sessions>>
  /\ UNCHANGED scripts

\* ------------------------------------------------------------ collector

\* An entry is the link it carries (an article id of the model stands for the
\* link it is the hash of); NoLink is an entry without one.
NoLink == 0
Entries == {NoLink} \cup ArticleIds

\* collector.fetch_feed: the articles of the entries that have a link.
FetchFeed(entries) == SelectSeq(entries, LAMBDA e : e # NoLink)

\* The articles of all feeds, in the order collect() goes through them.
RECURSIVE FetchAll(_)
FetchAll(feeds) ==
  IF feeds = <<>> THEN <<>> ELSE FetchFeed(Head(feeds)) \o FetchAll(Tail(feeds))

\* NewArticles without adding the links it takes to existing_links.
RECURSIVE NewArticlesOfEachFeed(_, _)
NewArticlesOfEachFeed(fetched, existing_links) ==
  IF fetched = <<>> THEN <<>>
  ELSE IF Head(fetched) \notin existing_links
       THEN <<Head(fetched)>> \o NewArticlesOfEachFeed(Tail(fetched), existing_links)
       ELSE NewArticlesOfEachFeed(Tail(fetched), existing_links)

\* if a["link"] not in existing_links: existing_links.add(a["link"]); new_articles.append(a)
RECURSIVE NewArticles(_, _)
NewArticles(fetched, existing_links) ==
  IF fetched = <<>> THEN <<>>
  ELSE IF Head(fetched) \notin existing_links
       THEN <<Head(fetched)>>
              \o NewArticles(Tail(fetched), existing_links \cup {Head(fetched)})
       ELSE NewArticles(Tail(fetched), existing_links)

\* upsert(chunk, on_conflict="link"): a row whose link is in the table is
\* written over, any other is added.
RECURSIVE UpsertLinks(_, _)
UpsertLinks(rows, chunk) ==
  IF chunk = <<>> THEN rows
  ELSE UpsertLinks(IF Head(chunk) \in Range(rows) THEN rows ELSE Append(rows, Head(chunk)),
                   Tail(chunk))

\* collector.collect over the feeds `feeds`; `fail`: the upsert of the chunk
\* raises (the error is printed and the run goes on). The rows of a run of the
\* model fit in one chunk of 50.
Collect(feeds, fail) ==
  LET existing_links == Range(article_links)
      new_articles == NewArticles(FetchAll(feeds), existing_links)
      upserted == IF fail THEN <<>> ELSE new_articles
  IN  /\ article_links' = UpsertLinks(article_links, upserted)
      /\ last' = [NoCall EXCEPT !.op = "collect", !.args = feeds,
                    !.error = (fail /\ new_articles # <<>>),
                    !.wrote = (upserted # <<>>),
                    !.result = [existing |-> existing_links, rows |-> new_articles,
                                upserted |-> upserted, count |-> Len(new_articles)]]
      /\ UNCHANGED <<articles, user_vectors, user_interactions, user_profile, hist, ui, nOps>>
      /\ UNCHANGED <<health_score_history, today, sessions, migration>>

\* ------------------------------------------- embedding migration script

MaxRetries == 5

\* The number of errors above which migrate stops.
ErrorLimit == 50

\* errors += 1; the model stops counting at ErrorLimit + 1, above which the
\* script does not tell the counts apart.
CountError(errors) == Min(errors + 1, ErrorLimit + 1)

\* time.sleep(2 ** attempt)
Backoff(attempt) == 2 ^ attempt

\* Backoff also after the last attempt.
SleepsAfterEvery(attempt) == TRUE

\* if attempt < max_retries - 1: the failed attempt is followed by a sleep.
SleepsAfter(attempt) == attempt < MaxRetries - 1

\* migrate up to its loop: total articles counted; none: compute_user_vectors.
MigrateStart ==
  /\ migration.pc = "off"
  /\ migration' = [migration EXCEPT !.pc = IF migration.pending = {} THEN "done"
                                            ELSE "fetch"]
  /\ UNCHANGED <<articles, user_vectors, user_interactions, user_profile, last, hist, ui,
                 nOps>>
  /\ UNCHANGED <<health_score_history, today, sessions, article_links>>

\* The select of up to BATCH_SIZE articles with a null embedding_m3 (any of
\* them, in any order); none left: break.
MigrateFetch ==
  /\ migration.pc = "fetch"
  /\ \E found \in InjSeqs(migration.pending, Min(BatchSize, Cardinality(migration.pending))) :
       migration' = [migration EXCEPT !.batch = found,
                                      !.pc = IF found = <<>> THEN "done" ELSE "embed"]
  /\ UNCHANGED <<articles, user_vectors, user_interactions, user_profile, last, hist, ui,
                 nOps>>
  /\ UNCHANGED <<health_score_history, today, sessions, article_links>>

\* embed_texts(texts) answers with the embeddings (ok) or with an error other
\* than a lost connection: errors += 1, sleep, break above ErrorLimit.
MigrateEmbed(ok) ==
  /\ migration.pc = "embed"
  /\ migration' =
       IF ok
       THEN [migration EXCEPT !.pc = "update", !.attempt = 0, !.waits = <<>>,
                              !.success = "none"]
       ELSE LET errors == CountError(migration.errors)
            IN  [migration EXCEPT !.errors = errors, !.batch = <<>>,
                                  !.pc = IF errors > ErrorLimit THEN "done" ELSE "fetch"]
  /\ UNCHANGED <<articles, user_vectors, user_interactions, user_profile, last, hist, ui,
                 nOps>>
  /\ UNCHANGED <<health_score_history, today, sessions, article_links>>

\* One attempt of update_article_with_retry on the first article of the batch:
\* the update succeeds (return True) or raises (sleep and go on, or return False
\* after the last attempt).
UpdateAttempt(ok) ==
  /\ migration.pc = "update"
  /\ migration' =
       IF ok
       THEN [migration EXCEPT !.pending = @ \ {Head(migration.batch)},
                              !.success = "true", !.pc = "returned"]
       ELSE IF SleepsAfter(migration.attempt)
            THEN [migration EXCEPT !.waits = Append(@, Backoff(migration.attempt)),
                                   !.attempt = @ + 1]
            ELSE [migration EXCEPT !.success = "false", !.pc = "returned"]
  /\ UNCHANGED <<articles, user_vectors, user_interactions, user_profile, last, hist, ui,
                 nOps>>
  /\ UNCHANGED <<health_score_history, today, sessions, article_links>>

\* success = update_article_with_retry(...); if not success: errors += 1; then
\* the next article of the batch, or the next turn of the loop.
MigrateNextArticle ==
  /\ migration.pc = "returned"
  /\ LET errors == IF migration.success = "false" THEN CountError(migration.errors)
                   ELSE migration.errors
         rest == Tail(migration.batch)
     IN  migration' =
           IF rest = <<>>
           THEN [migration EXCEPT !.errors = errors, !.batch = rest, !.pc = "fetch"]
           ELSE [migration EXCEPT !.errors = errors, !.batch = rest, !.pc = "update",
                                  !.attempt = 0, !.waits = <<>>, !.success = "none"]
  /\ UNCHANGED <<articles, user_vectors, user_interactions, user_profile, last, hist, ui,
                 nOps>>
  /\ UNCHANGED <<health_score_history, today, sessions, article_links>>

MigrateNext ==
  \/ MigrateStart
  \/ MigrateFetch
  \/ \E ok \in BOOLEAN : MigrateEmbed(ok)
  \/ \E ok \in BOOLEAN : UpdateAttempt(ok)
  \/ MigrateNextArticle

\* ------------------------------------------------ scores of a label multiset

\* A label multiset is given by its Counter: the counts of its distinct labels
\* in the order of their first occurrence.
IsUniform(counts) == \A i, j \in 1..Len(counts) : counts[i] = counts[j]

\* int((entropy / math.log2(n)) * 100) for n labels of one common count (n =
\* 1..20), as the floating-point expression evaluates; the common count does not
\* change it.
UniformDiversity ==
  <<0, 100, 100, 100, 100, 100, 100, 100, 100, 100, 100, 100, 100, 100, 99, 100, 100,
    100, 99, 100>>

\* The same for three labels counted a, b and c times (1..5 each).
DiversityOfThree ==
  << <<<<100, 94, 86, 78, 72>>, <<94, 96, 92, 86, 81>>, <<86, 92, 91, 88, 85>>, <<78, 86, 88, 87, 85>>, <<72, 81, 85, 85, 85>>>>,
     <<<<94, 96, 92, 86, 81>>, <<96, 100, 98, 94, 90>>, <<92, 98, 98, 96, 93>>, <<86, 94, 96, 96, 94>>, <<81, 90, 93, 94, 93>>>>,
     <<<<86, 92, 91, 88, 85>>, <<92, 98, 98, 96, 93>>, <<91, 98, 100, 99, 97>>, <<88, 96, 99, 99, 98>>, <<85, 93, 97, 98, 97>>>>,
     <<<<78, 86, 88, 87, 85>>, <<86, 94, 96, 96, 94>>, <<88, 96, 99, 99, 98>>, <<87, 96, 99, 100, 99>>, <<85, 94, 98, 99, 99>>>>,
     <<<<72, 81, 85, 85, 85>>, <<81, 90, 93, 94, 93>>, <<85, 93, 97, 98, 97>>, <<85, 94, 98, 99, 99>>, <<85, 93, 97, 99, 100>>>> >>

\* diversity_score of get_info_health and of _calc_health: 0 for at most one
\* label, else int((entropy / max_entropy) * 100) in floating point (the
\* multisets of the model are the uniform ones and those of two or three labels).
CalcDiversity(counts) ==
  IF Len(counts) <= 1 THEN 0
  ELSE IF IsUniform(counts) THEN UniformDiversity[Len(counts)]
  ELSE IF Len(counts) = 2 THEN DiversityOfTwo[counts[1]][counts[2]]
  ELSE DiversityOfThree[counts[1]][counts[2]][counts[3]]

\* The evaluation of a function on the arguments held by the call record.
Evaluate(op, result) ==
  /\ last.op = "none"
  /\ last' = [last EXCEPT !.op = op, !.result = result]
  /\ UNCHANGED <<articles, user_vectors, user_interactions, user_profile, hist, ui, nOps>>
  /\ UNCHANGED <<health_score_history, today, sessions>>
  /\ UNCHANGED scripts

\* The diversity score in get_info_health
InfoHealthDiversity == Evaluate("get_info_health", CalcDiversity(last.args))

\* The diversity score in get_hierarchical_health's _calc_health
CalcHealthDiversity == Evaluate("_calc_health", CalcDiversity(last.args))

RECURSIVE SeqSum(_)
SeqSum(s) == IF s = <<>> THEN 0 ELSE Head(s) + SeqSum(Tail(s))

\* counter.most_common(1)[0][1]: the count of the most frequent label.
DominantCount(counts) == CHOOSE c \in Range(counts) : \A d \in Range(counts) : d <= c

\* bias_level from dominant_ratio = dominant_count / total before it is rounded
\* ("strong" for 偏食（強）, "mild" for やや偏り, "balanced" for バランス良好); the
\* comparison of the doubles is that of the fractions for totals below 10^15.
BiasLevel(dominant_count, total) ==
  IF 5 * dominant_count > 3 * total THEN "strong"
  ELSE IF 5 * dominant_count > 2 * total THEN "mild"
  ELSE "balanced"

\* The dominant_ratio (hundredths) and bias_level get_info_health returns for a
\* non-empty label multiset.
BiasOfCounts(counts) ==
  LET total == SeqSum(counts)
      dominant_count == DominantCount(counts)
  IN  [dominant_ratio |-> RoundHundredths(dominant_count, total),
       bias_level |-> BiasLevel(dominant_count, total)]

\* The bias part of get_info_health
InfoHealthBias == Evaluate("get_info_health", BiasOfCounts(last.args))

\* explain_recommendation on its own
ExplainRecommendationCall ==
  Evaluate("explain_recommendation",
           ExplainRecommendation(last.args.article, last.args.similarity, last.args.top))

\* ---------------------------------------------------------------- reads

Reverse(s) == [i \in 1..Len(s) |-> s[Len(s) + 1 - i]]

\* RankingEngine.get_interacted_ids (no types, or none given: every type)
GetInteractedIds(rows, u, types) ==
  {rows[i].article_id : i \in {j \in 1..Len(rows) :
      rows[j].user_id = u /\ (types = {} \/ rows[j].interaction_type \in types)}}

\* RankingEngine.get_interaction_history: the user's rows of the types, the
\* latest first (created_at is the order of insertion; the limit of 50 exceeds
\* the rows of the model), each with whether its article is still stored.
GetInteractionHistory(rows, u, types) ==
  LET mine == SelectSeq(rows, LAMBDA r : r.user_id = u /\ r.interaction_type \in types)
  IN  Reverse([i \in 1..Len(mine) |->
                 [article_id |-> mine[i].article_id,
                  interaction_type |-> mine[i].interaction_type,
                  deleted |-> (mine[i].article_id \notin Stored)]])

\* RankingEngine.get_stats (without daily_counts, which is about articles only)
GetStats(rows, u) ==
  [total_articles |-> Cardinality(Stored),
   view_count |-> Len(ViewedRows(rows, u)),
   not_interested_count |->
     Len(SelectSeq(rows, LAMBDA r : r.user_id = u /\ r.interaction_type = "not_interested")),
   category_counts |-> [c \in OnboardingCategories |-> CategoryCount(rows, u, c)]]

\* RankingEngine.get_health_history: the user's latest `days` snapshots, the
\* earliest first.
RECURSIVE ByDate(_)
ByDate(S) ==
  IF S = {} THEN <<>>
  ELSE LET r == CHOOSE x \in S : \A y \in S : x.score_date <= y.score_date
       IN  <<r>> \o ByDate(S \ {r})
GetHealthHistory(table, u, days) ==
  LET mine == ByDate({table[i] : i \in {j \in 1..Len(table) : table[j].user_id = u}})
      skip == Max(0, Len(mine) - Max(days, 0))
  IN  [i \in 1..(Len(mine) - skip) |->
         [score_date |-> mine[skip + i].score_date,
          diversity |-> mine[skip + i].diversity,
          bias_ratio |-> mine[skip + i].bias_ratio,
          top_category |-> mine[skip + i].top_category,
          major_diversity |-> mine[skip + i].major_diversity]]

\* The type lists the front-end reads with.
ReadTypes == {{}, {"view", "deep_dive"}, {"not_interested"}}

\* The number of days of history the front-end asks for.
HistoryDays == 30

\* A read of the engine returning `result`.
Read(op, u, types, result) ==
  /\ nOps < MaxOps
  /\ last' = [Call(op, u) EXCEPT !.types = types, !.result = result]
  /\ nOps' = nOps + 1
  /\ UNCHANGED <<articles, user_vectors, user_interactions, user_profile, hist, ui>>
  /\ UNCHANGED <<health_score_history, today, sessions>>
  /\ UNCHANGED scripts

ReadInteractedIds(u, types) ==
  Read("get_interacted_ids", u, types, GetInteractedIds(user_interactions, u, types))

ReadInteractionHistory(u, types) ==
  /\ types # {}
  /\ Read("get_interaction_history", u, types,
          GetInteractionHistory(user_interactions, u, types))

ReadStats(u) == Read("get_stats", u, {}, GetStats(user_interactions, u))

ReadInfoHealth(u) ==
  \E health \in GetInfoHealth(user_interactions, u) : Read("get_info_health", u, {}, health)

ReadHealthHistory(u) ==
  Read("get_health_history", u, {}, GetHealthHistory(health_score_history, u, HistoryDays))

\* ------------------------------------------------------- specification

\* filter_strength values (hundredths) and top_n values the calls are made with.
Strengths == {0, 75, 100}
MaxTopN == 3

Init ==
  /\ articles = [a \in ArticleIds |-> NoArticle]
  /\ user_vectors = [u \in Users |-> None]
  /\ user_interactions = <<>>
  /\ user_profile = <<>>
  /\ last = NoCall
  /\ hist = [u \in Users |-> NoHist]
  /\ ui = [u \in Users |-> FreshPage]
  /\ nOps = 0
  /\ health_score_history = <<>>
  /\ today = 1
  /\ sessions = [s \in Sessions |-> IdleSession]
  /\ article_links = <<>>
  /\ migration = NoMigration

StoreNext ==
  \/ \E a \in ArticleIds : CollectArticle(a)
  \/ \E a \in ArticleIds : EmbedArticle(a)

OnboardNext ==
  \/ \E u \in Users : IsOnboarded(u)
  \/ \E u \in Users, L \in SUBSET ArticleIds :
       \E D \in SUBSET (ArticleIds \ L) : CompleteOnboarding(u, L, D)

RankNext ==
  \E u \in Users, f \in Strengths, n \in 1..MaxTopN : Rank(u, f, n)

\* Deep dives of the first user during which no database call fails.
DeepDiveOk ==
  \E a \in ArticleIds : RecordDeepDive(1, a, "none")

\* Feedback on the first article during which no database call fails.
FeedbackFirstOk ==
  \E u \in Users, kind \in InteractionTypes : RecordFeedback(u, 1, kind, "none")

RankTwo ==
  \E u \in Users, f \in Strengths : Rank(u, f, 2)

\* Every handler of the engine; the feedback and rank calls with fewer inputs than
\* in the specifications below that are about them.
Next == StoreNext \/ OnboardNext \/ FeedbackFirstOk \/ RankTwo

Spec == Init /\ [][Next]_vars

\* Feedback calls during which no database call fails.
FeedbackOk ==
  \E u \in Users, a \in ArticleIds, kind \in InteractionTypes :
    RecordFeedback(u, a, kind, "none")

\* The feedback calls of the first user, any database call of which may fail.
FeedbackFailing ==
  \E a \in ArticleIds, kind \in InteractionTypes, fail \in FailPoints :
    RecordFeedback(1, a, kind, fail)

\* The onboarding page of the front-end.
AppNext ==
  \/ \E u \in Users, selected \in SUBSET OnboardingCategories : UiSelectCategories(u, selected)
  \/ \E u \in Users : UiShowSamples(u)
  \/ \E u \in Users : UiSkipOnboarding(u)
  \/ \E u \in Users, a \in ArticleIds, vote \in {"like", "dislike"} : UiVote(u, a, vote)
  \/ \E u \in Users : UiFinish(u)

\* Onboarding as the front-end drives it.
SpecApp == Init /\ [][StoreNext \/ AppNext]_vars
\* Lists, embeddings and cosines for grouping: every small case, and Scenario D
\* of the specification with each unlisted pair at either of two cosines below
\* the threshold.
GroupIds == 1..MaxGroupIds
GroupLists == UNION {[1..n -> GroupIds] : n \in 0..MaxListLen}
GroupEmbeddings(ids) == UNION {[S -> {"zero", "vec"}] : S \in SUBSET ids}
GroupCosines == {50, 85, 90}
SmallCases ==
  {[list |-> l, embeddings |-> e, cosines |-> c] :
     l \in GroupLists, e \in GroupEmbeddings(GroupIds),
     c \in [Pairs(GroupIds) -> GroupCosines]}
ScenarioDListed == {<<1, 2>>, <<1, 3>>, <<2, 3>>, <<4, 5>>}
ScenarioDCosines ==
  {c \in [Pairs(1..5) -> {10, 50, 86, 90, 92}] :
     /\ c[<<1, 2>>] = 90 /\ c[<<1, 3>>] = 50 /\ c[<<2, 3>>] = 92 /\ c[<<4, 5>>] = 86
     /\ \A p \in Pairs(1..5) \ ScenarioDListed : c[p] < Threshold}
ScenarioDCases ==
  {[list |-> <<1, 2, 3, 4, 5>>, embeddings |-> [a \in 1..5 |-> "vec"], cosines |-> c] :
     c \in ScenarioDCosines}

InitGroup ==
  /\ articles = [a \in ArticleIds |-> NoArticle]
  /\ user_vectors = [u \in Users |-> None]
  /\ user_interactions = <<>>
  /\ user_profile = <<>>
  /\ \E c \in SmallCases \cup ScenarioDCases :
       last = [NoCall EXCEPT !.list = c.list, !.embeddings = c.embeddings,
                             !.cosines = c.cosines]
  /\ hist = [u \in Users |-> NoHist]
  /\ ui = [u \in Users |-> FreshPage]
  /\ nOps = 0
  /\ health_score_history = <<>>
  /\ today = 1
  /\ sessions = [s \in Sessions |-> IdleSession]
  /\ article_links = <<>>
  /\ migration = NoMigration

\* Grouping of every list of the cases above.
SpecGroup == InitGroup /\ [][GroupSimilarArticlesCall]_vars
\* Feedback calls of every user.
SpecFeedback == Init /\ [][StoreNext \/ FeedbackOk]_vars
\* Feedback calls with failing database calls.
SpecFailure == Init /\ [][StoreNext \/ FeedbackFailing]_vars
\* Onboarding by direct calls of the engine.
SpecOnboard == Init /\ [][StoreNext \/ OnboardNext]_vars
\* Ranking, for users with no vector and for a user whose vector deep dives moved.
SpecRank == Init /\ [][StoreNext \/ RankNext \/ DeepDiveOk]_vars

\* Dial values outside [0, 1], in hundredths.
OutOfRange == {-50, 150}

\* rank called with a filter_strength outside [0, 1].
RankOutOfRange ==
  \E u \in Users, f \in OutOfRange, n \in 1..MaxTopN : Rank(u, f, n)

\* rank with a dial out of range, among deep dives of the first user.
SpecDial == Init /\ [][StoreNext \/ RankOutOfRange \/ DeepDiveOk]_vars

\* A store after the collection of every article, the embedding worker having
\* reached the first two, and the first user either fresh or after one
\* record_view of the first article.
InitSessions ==
  /\ articles = [a \in ArticleIds |->
                   [present |-> TRUE, collected_at |-> a,
                    embedding |-> IF a <= 2 THEN RInt(Corpus[a]) ELSE None]]
  /\ \E viewed \in BOOLEAN :
       /\ user_vectors = [u \in Users |->
                            IF viewed /\ u = SessionUser THEN RInt(Corpus[1]) ELSE None]
       /\ user_interactions =
            IF viewed THEN RecordInteraction(<<>>, SessionUser, 1, "view") ELSE <<>>
       /\ hist = [u \in Users |->
                    IF viewed /\ u = SessionUser
                    THEN HistAfter(NoHist, None, RInt(Corpus[1]), RInt(Corpus[1]))
                    ELSE NoHist]
  /\ user_profile = <<>>
  /\ last = NoCall
  /\ ui = [u \in Users |-> FreshPage]
  /\ nOps = 0
  /\ health_score_history = <<>>
  /\ today = 1
  /\ sessions = [s \in Sessions |-> IdleSession]
  /\ article_links = <<>>
  /\ migration = NoMigration

EmbedNext == \E a \in ArticleIds : EmbedArticle(a)

\* Two tabs of one user giving feedback at the same time.
SpecSessions == InitSessions /\ [][EmbedNext \/ SessionFeedbackNext]_vars

\* Two tabs of one user opening the application, among the onboarding calls of
\* every user.
SpecEnsure == Init /\ [][SessionEnsureNext \/ OnboardNext]_vars

\* Views during which no database call fails.
ViewsOk == \E u \in Users, a \in ArticleIds : RecordView(u, a, "none")

SnapshotNext == \E u \in Users : RecordHealthSnapshot(u)

\* A store after the collection of every article, the embedding worker having
\* reached the first two, and no user having done anything yet.
InitHealth ==
  /\ articles = [a \in ArticleIds |->
                   [present |-> TRUE, collected_at |-> a,
                    embedding |-> IF a <= 2 THEN RInt(Corpus[a]) ELSE None]]
  /\ user_vectors = [u \in Users |-> None]
  /\ user_interactions = <<>>
  /\ user_profile = <<>>
  /\ last = NoCall
  /\ hist = [u \in Users |-> NoHist]
  /\ ui = [u \in Users |-> FreshPage]
  /\ nOps = 0
  /\ health_score_history = <<>>
  /\ today = 1
  /\ sessions = [s \in Sessions |-> IdleSession]
  /\ article_links = <<>>
  /\ migration = NoMigration

\* Daily health snapshots among views.
SpecHealth == InitHealth /\ [][EmbedNext \/ ViewsOk \/ SnapshotNext \/ NextDay]_vars

\* The history and health reads of the engine.
ReadNext ==
  \/ \E u \in Users, types \in ReadTypes : ReadInteractedIds(u, types)
  \/ \E u \in Users, types \in ReadTypes : ReadInteractionHistory(u, types)
  \/ \E u \in Users : ReadStats(u)
  \/ \E u \in Users : ReadInfoHealth(u)
  \/ \E u \in Users : ReadHealthHistory(u)

\* The onboarding calls with at most one liked and no disliked article.
OnboardLiked ==
  \/ \E u \in Users : IsOnboarded(u)
  \/ \E u \in Users, L \in {{}, {1}} : CompleteOnboarding(u, L, {})

\* rank for an even blend of two.
RankEven == \E u \in Users : Rank(u, 50, 2)

\* Feedback on the first two articles during which no database call fails.
FeedbackTwoOk ==
  \E u \in Users, a \in 1..2, kind \in InteractionTypes : RecordFeedback(u, a, kind, "none")

\* Every operation of the engine, for two users over one store.
SpecFrame ==
  InitHealth /\ [][OnboardLiked \/ RankEven \/ FeedbackTwoOk \/ SnapshotNext \/ ReadNext]_vars

\* The label multisets: up to MaxLabels labels of one common count, and up to
\* three labels of any counts.
UniformCounts == {[i \in 1..n |-> k] : n \in 0..MaxLabels, k \in 1..MaxCount}
SmallCounts == UNION {[1..n -> 1..MaxCount] : n \in 0..3}
LabelCounts == UniformCounts \cup SmallCounts

\* A call record holding the arguments `args` of an evaluation to come.
InitEvaluate(args) ==
  /\ articles = [a \in ArticleIds |-> NoArticle]
  /\ user_vectors = [u \in Users |-> None]
  /\ user_interactions = <<>>
  /\ user_profile = <<>>
  /\ last = [NoCall EXCEPT !.args = args]
  /\ hist = [u \in Users |-> NoHist]
  /\ ui = [u \in Users |-> FreshPage]
  /\ nOps = 0
  /\ health_score_history = <<>>
  /\ today = 1
  /\ sessions = [s \in Sessions |-> IdleSession]
  /\ article_links = <<>>
  /\ migration = NoMigration

InitDiversity == \E counts \in LabelCounts : InitEvaluate(counts)

\* The diversity score of every label multiset.
SpecDiversity == InitDiversity /\ [][InfoHealthDiversity \/ CalcHealthDiversity]_vars

\* Label multisets of three labels.
InitBias ==
  \E a \in 1..MaxDominant, b \in 1..MaxRest, c \in 1..MaxRest : InitEvaluate(<<a, b, c>>)

\* The bias level of every label multiset of three labels.
SpecBias == InitBias /\ [][InfoHealthBias]_vars

\* Similarities in hundredths.
Hundredths == -100..100

\* An article of the corpus, a similarity and the user's top categories.
InitExplain ==
  \E a \in 1..Len(CorpusTags), similarity \in Hundredths, top \in SUBSET OnboardingCategories :
    InitEvaluate([article |-> a, similarity |-> similarity, top |-> top])

\* The reason of every article at every similarity.
SpecExplain == InitExplain /\ [][ExplainRecommendationCall]_vars

\* The category lists a user can choose, and the numbers of samples asked for.
CategoryLists == UNION {InjSeqs(S, Cardinality(S)) : S \in SUBSET OnboardingCategories}
SampleCounts == 1..(NumArticles + 1) \cup {OnboardCount}

SamplesNext ==
  \E categories \in CategoryLists, count \in SampleCounts :
    GetOnboardingArticlesCall(1, categories, count)

\* Sample selection over every store content.
SpecSamples == Init /\ [][StoreNext \/ SamplesNext]_vars

\* The contents of one feed and of the feeds of a run.
FeedContents == UNION {[1..n -> Entries] : n \in 0..MaxEntries}
FeedLists == [1..NumFeeds -> FeedContents]

CollectNext == \E feeds \in FeedLists, fail \in BOOLEAN : Collect(feeds, fail)

\* Runs of the collector, one after the other.
SpecCollect == Init /\ [][CollectNext]_vars

\* The script started on a store with any articles lacking embedding_m3.
InitMigrate ==
  /\ articles = [a \in ArticleIds |-> NoArticle]
  /\ user_vectors = [u \in Users |-> None]
  /\ user_interactions = <<>>
  /\ user_profile = <<>>
  /\ last = NoCall
  /\ hist = [u \in Users |-> NoHist]
  /\ ui = [u \in Users |-> FreshPage]
  /\ nOps = 0
  /\ health_score_history = <<>>
  /\ today = 1
  /\ sessions = [s \in Sessions |-> IdleSession]
  /\ article_links = <<>>
  /\ \E pending \in SUBSET ArticleIds : migration = [NoMigration EXCEPT !.pending = pending]

\* The migration script, the database and the embedding server answering each
\* call with success or with an error.
SpecMigrate == InitMigrate /\ [][MigrateNext]_vars

\* The same, the script going on as long as it has a step to take.
SpecMigrateFair == SpecMigrate /\ WF_vars(MigrateNext)

\* ------------------------------------------------------------------ claims

IsFeedback(c) == c.op \in {"record_view", "record_deep_dive", "record_not_interested"}
Similar(items) == {i \in 1..Len(items) : items[i].source = "similar"}
Random(items) == {i \in 1..Len(items) : items[i].source = "random"}
\* A step that is a call of the engine or of the front-end.
IsCall == nOps' = nOps + 1

\* C1: for filter_strength in [0, 1] and top_n >= 1, the list rank returns has at
\* most top_n items and no two of them share an id, on every path.
C1_RankBoundedDistinct ==
  (last.op = "rank" /\ last.F \in 0..100 /\ last.N >= 1) =>
    /\ Len(last.items) <= last.N
    /\ \A i, j \in 1..Len(last.items) :
         i # j => last.items[i].id # last.items[j].id

\* C1 witness: a blended list filled to top_n with similarity rows and random
\* rows, from a store that holds more rows than top_n (so a duplicate random row
\* was discarded and the loop stopped at top_n).
C1_Witness ==
  /\ last.op = "rank" /\ last.path = "blend"
  /\ Len(last.items) = last.N /\ last.corpus > last.N
  /\ Similar(last.items) # {} /\ Random(last.items) # {}

\* C2: after every feedback call the norm of the stored user vector is at most
\* the larger of the norm of its initial value and the largest norm of the
\* embeddings given as feedback.
C2_NormBounded ==
  \A u \in Users :
    user_vectors[u] # None =>
      RLe(Norm(user_vectors[u]), RMax(Norm(hist[u].u0), hist[u].fed))

\* C2 witness: a negative feedback has moved an existing vector to another
\* non-zero vector, after a feedback on an article of a larger norm than u0.
C2_Witness ==
  /\ last.op = "record_not_interested" /\ last.wrote /\ last.before # None
  /\ user_vectors[last.user] # last.before
  /\ user_vectors[last.user] # RZero
  /\ RLt(Norm(hist[last.user].u0), hist[last.user].fed)

NoDuplicateRows(rows) ==
  \A i, j \in 1..Len(rows) : i # j => ~SameKey(rows[i], rows[j])

\* C3: the interaction log holds at most one row per (user, article, kind), and a
\* feedback call whose row is already there leaves the rows unchanged.
C3_UpsertIdempotent ==
  [][(IsCall /\ last'.logged) =>
       /\ NoDuplicateRows(user_interactions')
       /\ last'.existed => user_interactions' = user_interactions]_vars

\* C3 witness: a feedback call was repeated with the same article and kind.
C3_Witness ==
  /\ IsFeedback(last) /\ last.logged /\ last.existed
  /\ Len(user_interactions) >= 2

\* C4 as claimed: after a feedback call, either the interaction upsert and the
\* vector update both took effect, or the caller saw an error.
C4_AtomicOrError ==
  IsFeedback(last) => (last.logged /\ last.wrote) \/ last.error

\* C4 as amended: ..., or no error was raised and only the interaction row was
\* upserted, because the article has no embedding (or no row), or because the user
\* has no vector and the feedback is negative.
C4_AtomicOrErrorOrMissing ==
  IsFeedback(last) =>
    \/ last.logged /\ last.wrote /\ ~last.error
    \/ last.error /\ ~last.wrote
    \/ /\ last.logged /\ ~last.wrote /\ ~last.error
       /\ \/ last.emb = None
          \/ last.before = None /\ last.kind = "not_interested"

\* C4 witness: a feedback call on an article without an embedding returned
\* normally with the interaction logged and no vector written.
C4_Witness ==
  /\ IsFeedback(last) /\ last.logged /\ ~last.wrote /\ ~last.error
  /\ last.emb = None /\ last.before # None

\* C5: once the onboarded flag of a user reads true it reads true after every
\* further call.
C5_OnboardedMonotonic ==
  [][\A u \in Users :
       ReadOnboarded(user_profile, u) => ReadOnboarded(user_profile', u)]_vars

\* C5 witness: is_onboarded returns true in a call that follows the call that
\* set the flag.
C5_Witness ==
  /\ last.op = "is_onboarded" /\ last.flag /\ nOps >= 3

\* C6 as claimed: after complete_onboarding has returned for a user, the user's
\* onboarded flag is true and is_onboarded returns true.
C6_OnboardedAfterComplete ==
  \A u \in Users :
    hist[u].completed =>
      /\ ReadOnboarded(user_profile, u)
      /\ (last.op = "is_onboarded" /\ last.user = u) => last.flag

\* C10 as claimed: rank(F = 1, N) returns no random item; rank(F = 0, N) returns
\* at most 1 similarity item and at least N - 1 random items.
C10_DialExtremes ==
  /\ (last.op = "rank" /\ last.F = 100) => Random(last.items) = {}
  /\ (last.op = "rank" /\ last.F = 0) =>
       /\ Cardinality(Similar(last.items)) <= 1
       /\ Cardinality(Random(last.items)) >= last.N - 1

\* C10 as amended: ... and at least N - 1 random items when the retrieval runs
\* (the user has a vector, stored or cold-started) on a store of at least N rows;
\* with fewer rows every row is returned once, and the latest-only fallback
\* returns no random item.
C10_DialExtremesWithinStore ==
  /\ (last.op = "rank" /\ last.F = 100) => Random(last.items) = {}
  /\ (last.op = "rank" /\ last.F = 0) =>
       /\ Cardinality(Similar(last.items)) <= 1
       /\ (last.path = "blend" /\ last.corpus >= last.N) =>
            Cardinality(Random(last.items)) >= last.N - 1
       /\ (last.path = "blend" /\ last.corpus < last.N) =>
            /\ Len(last.items) = last.corpus
            /\ Cardinality(Random(last.items)) < last.N - 1
       /\ last.path = "latest" => Random(last.items) = {}

\* C10 witness: rank(F = 0, N) on a store of more than N rows returned one
\* similarity item followed by N - 1 random items.
C10_Witness ==
  /\ last.op = "rank" /\ last.F = 0 /\ last.N >= 2 /\ last.corpus > last.N
  /\ Cardinality(Similar(last.items)) = 1
  /\ Cardinality(Random(last.items)) = last.N - 1

RECURSIVE Flatten(_)
Flatten(grouped) ==
  IF grouped = <<>> THEN <<>>
  ELSE <<Head(grouped).id>> \o Head(grouped).related \o Flatten(Tail(grouped))

FirstIndex(list, a) == CHOOSE i \in 1..Len(list) : list[i] = a /\ \A j \in 1..(i - 1) : list[j] # a

Grouped == last.op = "group_similar_articles"

\* C8: the groups hold every id of the input list exactly once, the
\* representatives come in the order of the input list, and every related
\* article has a cosine of at least the threshold with its representative.
C8_GroupingPartition ==
  Grouped =>
    LET flat == Flatten(last.grouped)
    IN  /\ Range(flat) = Range(last.list)
        /\ \A i, j \in 1..Len(flat) : i # j => flat[i] # flat[j]
        /\ \A i, j \in 1..Len(last.grouped) :
             i < j => FirstIndex(last.list, last.grouped[i].id)
                        < FirstIndex(last.list, last.grouped[j].id)
        /\ \A g \in Range(last.grouped) : \A b \in Range(g.related) :
             /\ {g.id, b} \subseteq DOMAIN last.embeddings
             /\ PairCosine(last.cosines, g.id, b) >= Threshold

\* C8 witness: a list with a repeated id was grouped into a group with a related
\* article and a group of an article without embedding.
C8_Witness ==
  /\ Grouped
  /\ Len(last.list) > Cardinality(Range(last.list))
  /\ \E g \in Range(last.grouped) : g.related # <<>>
  /\ \E g \in Range(last.grouped) : g.id \notin DOMAIN last.embeddings

IsScenarioD ==
  /\ last.list = <<1, 2, 3, 4, 5>>
  /\ last.embeddings = [a \in 1..5 |-> "vec"]
  /\ last.cosines \in ScenarioDCosines

GroupSets(grouped) ==
  [i \in 1..Len(grouped) |-> {grouped[i].id} \cup Range(grouped[i].related)]

KSim(f, top_n) == IF (top_n * f) \div 100 >= 1 THEN (top_n * f) \div 100 ELSE 1

\* C11: in the list rank returns for a user with a vector, at most K_sim items
\* come from the similarity retrieval, every one of them precedes every random
\* item, and every random item has similarity 0.
C11_SimilarFirst ==
  (last.op = "rank" /\ last.path = "blend" /\ last.F \in 0..100) =>
    /\ Cardinality(Similar(last.items)) <= KSim(last.F, last.N)
    /\ \A i \in Similar(last.items), j \in Random(last.items) : i < j
    /\ \A j \in Random(last.items) : last.items[j].similarity = 0

\* C11 witness: a list of K_sim = 2 similarity items of non-zero similarity
\* followed by a random item.
C11_Witness ==
  /\ last.op = "rank" /\ last.path = "blend" /\ last.F = 75 /\ last.N = 3
  /\ Cardinality(Similar(last.items)) = 2
  /\ Cardinality(Random(last.items)) = 1
  /\ \A i \in Similar(last.items) : last.items[i].similarity # 0

\* C12 as claimed: every item of every list rank returns carries a similarity
\* and a reason, on every path.
C12_ItemsAnnotated ==
  last.op = "rank" =>
    \A i \in 1..Len(last.items) :
      {"similarity", "reason"} \subseteq DOMAIN last.items[i]

\* C13 as claimed: rank called with a filter_strength outside [0, 1] raises an
\* error and returns no list, and leaves the user's vector, the interaction log
\* and the profiles unchanged.
C13_OutOfRangeRejected ==
  [][(IsCall /\ last'.op = "rank" /\ last'.F \notin 0..100) =>
       /\ last'.error /\ last'.items = <<>>
       /\ UNCHANGED <<user_vectors, user_interactions, user_profile>>]_vars

\* The items of a list are ordered by collected_at, newest first.
NewestFirst(items) ==
  \A i, j \in 1..Len(items) :
    i < j => articles[items[i].id].collected_at >= articles[items[j].id].collected_at

\* C14: rank for a user with no stored vector persists the mean of the
\* embeddings and retrieves with it when an article has an embedding; otherwise
\* it persists nothing and returns the newest articles (at most N, all of them
\* when there are fewer), newest first, each with similarity 0.
C14_ColdStart ==
  [][(IsCall /\ last'.op = "rank" /\ last'.before = None) =>
       LET u == last'.user
           items == last'.items
       IN  /\ Embedded # {} =>
                /\ user_vectors'[u] = MeanEmbedding(Embedded)
                /\ last'.path = "blend" /\ last'.wrote
                /\ \A i \in Similar(items) :
                     /\ items[i].id \in Embedded
                     /\ items[i].similarity =
                          Cosine(MeanEmbedding(Embedded), articles[items[i].id].embedding)
           /\ Embedded = {} =>
                /\ user_vectors'[u] = None /\ ~last'.wrote /\ ~last'.error
                /\ Len(items) = Min(last'.N, Cardinality(Stored))
                /\ \A i \in 1..Len(items) :
                     /\ items[i].id \in Stored
                     /\ items[i].similarity = 0
                     /\ \A b \in Stored \ {items[k].id : k \in 1..Len(items)} :
                          articles[b].collected_at <= articles[items[i].id].collected_at
                /\ NewestFirst(items)]_vars

\* C14 witness: a cold start persisted the mean of two embeddings, which is
\* neither of them.
C14_Witness ==
  /\ last.op = "rank" /\ last.before = None /\ last.wrote
  /\ last.path = "blend" /\ Cardinality(Similar(last.items)) >= 1
  /\ Cardinality(Embedded) >= 2
  /\ \A a \in Embedded : user_vectors[last.user] # articles[a].embedding

\* A record_not_interested call that found a stored vector and an embedding,
\* and wrote the vector.
NegativeFeedbackDone ==
  /\ last.op = "record_not_interested" /\ last.wrote
  /\ last.before # None /\ last.emb # None

\* C15 as claimed: after record_not_interested the stored vector has the norm
\* of the vector stored before, for every u and v.
C15_NormPreserved ==
  NegativeFeedbackDone => Norm(user_vectors[last.user]) = Norm(last.before)

\* C15 as amended: ... unless (1 + s) u - s v is the zero vector (v = 6 u for
\* s = 0.2); then the zero vector is stored.
C15_NormPreservedUnlessZero ==
  NegativeFeedbackDone =>
    LET s == Rat(2, 10)
        raw == RSub(RMul(RAdd(ROne, s), last.before), RMul(s, last.emb))
    IN  IF raw = RZero THEN user_vectors[last.user] = RZero
        ELSE Norm(user_vectors[last.user]) = Norm(last.before)

\* C15 witness: a negative feedback turned a non-zero vector into a different
\* vector of the same norm.
C15_Witness ==
  /\ NegativeFeedbackDone
  /\ last.before # RZero
  /\ user_vectors[last.user] # last.before
  /\ Norm(user_vectors[last.user]) = Norm(last.before)

\* C16: a feedback call for a user without a stored vector on an article with
\* embedding v stores exactly v when it is a view or a deep dive, and stores no
\* vector when it is a not_interested.
C16_FirstFeedback ==
  (IsFeedback(last) /\ last.before = None /\ last.emb # None /\ ~last.error) =>
    /\ last.kind \in {"view", "deep_dive"} =>
         last.wrote /\ user_vectors[last.user] = last.emb
    /\ last.kind = "not_interested" =>
         ~last.wrote /\ user_vectors[last.user] = None

\* C16 witness: a not_interested of a user without a vector on an article with
\* an embedding, after a view of another user stored that embedding.
C16_Witness ==
  /\ last.op = "record_not_interested" /\ last.before = None /\ last.emb # None
  /\ last.logged /\ user_vectors[last.user] = None
  /\ \E u \in Users \ {last.user} : user_vectors[u] = last.emb

AllIdle == \A s \in Sessions : sessions[s].pc = "idle"

\* The bound of the norm of user u's vector: the norm of the vector before the
\* operations (none: zero) and the norms of the embeddings they fetched.
NormBound(u) ==
  IF hist[u].u0 = None THEN hist[u].fed ELSE RMax(Norm(hist[u].u0), hist[u].fed)

\* C17: under every interleaving of the feedback operations of two sessions of a
\* user, the stored vector is the one the last writer computed from the
\* vector it had read and its article's embedding, and its norm never exceeds the
\* norm of the vector before the operations and of the embeddings involved.
C17_LastWriterWins ==
  /\ \A u \in Users :
       user_vectors[u] # None => RLe(Norm(user_vectors[u]), NormBound(u))
  /\ (IsFeedback(last) /\ last.wrote) =>
       user_vectors[last.user] = NewVector(last.read, last.emb, Alpha(last.kind))

\* C17 witness: both sessions have finished, and the last writer had read the
\* vector before the other session's write: that update is lost.
C17_Witness ==
  /\ AllIdle /\ \A s \in Sessions : sessions[s].new_vec # None
  /\ IsFeedback(last) /\ last.wrote
  /\ last.read # None /\ last.read # last.before
  /\ user_vectors[last.user] # last.before

SnapshotsOf(rows, u, day) == SelectSeq(rows, LAMBDA r : r.user_id = u /\ r.score_date = day)

IsSnapshot == last'.op = "record_health_snapshot" /\ last' # last

\* C20: record_health_snapshot is idempotent per calendar day: the table never
\* holds two rows of one user and one date, and a call on a day that already
\* has the user's row leaves the number of rows as it was and leaves, as that
\* day's row, the one computed from the current health.
C20_OneSnapshotPerDay ==
  [][IsSnapshot =>
       /\ \A u \in Users, day \in 1..MaxDays :
            Len(SnapshotsOf(health_score_history', u, day)) <= 1
       /\ last'.existed =>
            /\ Len(health_score_history') = Len(health_score_history)
            /\ \E health \in GetInfoHealth(user_interactions, last'.user) :
                 SnapshotsOf(health_score_history', last'.user, today)
                   = <<SnapshotRow(last'.user, today, health)>>
            /\ \A u \in Users, day \in 1..MaxDays :
                 (u # last'.user \/ day # today) =>
                   SnapshotsOf(health_score_history', u, day)
                     = SnapshotsOf(health_score_history, u, day)]_vars

\* A second snapshot on the second day, after a further view, has replaced the
\* day's row by a different one; the first day's row is still there.
C20_Witness ==
  /\ last.op = "record_health_snapshot"
  /\ last.existed /\ last.changed
  /\ today = 2
  /\ Len(SnapshotsOf(health_score_history, last.user, 1)) = 1
  /\ Len(SnapshotsOf(health_score_history, last.user, 2)) = 1

\* The tables with the rows of every user but u removed.
OwnRows(rows, u) == SelectSeq(rows, LAMBDA r : r.user_id = u)
OwnVectors(u) == [x \in Users |-> IF x = u THEN user_vectors[x] ELSE None]

\* The step is a call of the engine for user a.
CallFor(a) == last' # last /\ last'.user = a

\* The step leaves the per-user rows of b as they were.
FrameOf(b) ==
  /\ user_vectors'[b] = user_vectors[b]
  /\ OwnRows(user_interactions', b) = OwnRows(user_interactions, b)
  /\ OwnRows(user_profile', b) = OwnRows(user_profile, b)
  /\ OwnRows(health_score_history', b) = OwnRows(health_score_history, b)

\* What the call of the step returned to a (and, for a call that returns
\* nothing, what it wrote for a) is what it yields on the tables holding the
\* rows of a alone.
OwnResult(a) ==
  LET mine == OwnRows(user_interactions, a)
      op == last'.op
  IN  /\ op = "is_onboarded" =>
           last'.flag = ReadOnboarded(EnsureUserProfile(OwnRows(user_profile, a), a), a)
      /\ op = "rank" =>
           \E out \in RankOutcomes(OwnVectors(a), mine, a, last'.F, last'.N) :
             /\ out.path = last'.path /\ out.items = last'.items
             /\ out.vectors[a] = user_vectors'[a]
      /\ op \in {"record_view", "record_deep_dive", "record_not_interested"} =>
           /\ user_vectors'[a]
                = ApplyFeedback(OwnVectors(a), a, last'.article, Alpha(last'.kind),
                                "none").vectors[a]
           /\ OwnRows(user_interactions', a)
                = RecordInteraction(mine, a, last'.article, last'.kind)
      /\ op = "complete_onboarding" =>
           OwnRows(user_profile', a) = UpdateOnboarded(OwnRows(user_profile, a), a)
      /\ op = "record_health_snapshot" =>
           \E health \in GetInfoHealth(mine, a) :
             OwnRows(health_score_history', a)
               = IF health.total_viewed = 0 THEN OwnRows(health_score_history, a)
                 ELSE UpsertSnapshot(OwnRows(health_score_history, a),
                                     SnapshotRow(a, today, health))
      /\ op = "get_interacted_ids" => last'.result = GetInteractedIds(mine, a, last'.types)
      /\ op = "get_interaction_history" =>
           last'.result = GetInteractionHistory(mine, a, last'.types)
      /\ op = "get_stats" => last'.result = GetStats(mine, a)
      /\ op = "get_info_health" => last'.result \in GetInfoHealth(mine, a)
      /\ op = "get_health_history" =>
           last'.result = GetHealthHistory(OwnRows(health_score_history, a), a, HistoryDays)

\* C18: an operation of the engine invoked for a user A changes no other
\* user's vector, interaction rows, profile row or health snapshots, and what
\* it returns to A is what it returns when the other users' rows are absent.
C18_PerUserFrame ==
  [][\A a \in Users : CallFor(a) =>
       /\ \A b \in Users \ {a} : FrameOf(b)
       /\ OwnResult(a)]_vars

\* The first user reads their health after the second user has viewed an
\* article, taken a snapshot and been given a vector, having nothing themselves.
C18_Witness ==
  /\ last.op = "get_info_health" /\ last.user = 1
  /\ last.result.total_viewed = 0
  /\ OwnRows(user_interactions, 1) = <<>>
  /\ OwnRows(user_interactions, 2) # <<>>
  /\ OwnRows(health_score_history, 2) # <<>>
  /\ user_vectors[2] # None

\* C21: for every label multiset the diversity score is an integer in 0..100,
\* is 0 when there is at most one distinct label, and is 100 exactly when the
\* distribution is uniform over at least two distinct labels.
C21_DiversityContract ==
  last.op \in {"get_info_health", "_calc_health"} =>
    /\ last.result \in 0..100
    /\ Len(last.args) <= 1 => last.result = 0
    /\ last.result = 100 <=> (Len(last.args) >= 2 /\ IsUniform(last.args))

\* C22: in a record get_info_health returns for a non-empty label multiset,
\* bias_level is "strong" exactly when the returned dominant_ratio exceeds 0.6,
\* "mild" exactly when it exceeds 0.4 and not 0.6, and "balanced" otherwise.
C22_BiasFromReturnedRatio ==
  last.op = "get_info_health" =>
    LET ratio == last.result.dominant_ratio
        level == last.result.bias_level
    IN  /\ level = "strong" <=> ratio > 60
        /\ level = "mild" <=> (40 < ratio /\ ratio <= 60)
        /\ level = "balanced" <=> ratio <= 40

\* C23: explain_recommendation picks the reason by strict priority: a
\* similarity above 0.7 gives the percent match; otherwise a category of the
\* article among the user's top categories gives the often-read reason naming
\* the first such category in the article's order; otherwise a similarity
\* above 0.3 gives the close-to-interest reason; otherwise a category gives the
\* new-view reason naming the first one; otherwise the diversity suggestion.
\* 0.7 and 0.3 themselves do not take the similarity branches.
C23_ReasonPriority ==
  last.op = "explain_recommendation" =>
    LET s == last.args.similarity
        C == CategoriesOf(last.args.article)
        T == last.args.top
        common == {i \in 1..Len(C) : C[i] \in T}
        r == last.result
    IN  /\ s > 70 => r.template = "match"
        /\ (s <= 70 /\ common # {}) =>
             /\ r.template = "category"
             /\ \E i \in common : r.arg = C[i] /\ \A j \in common : i <= j
        /\ (30 < s /\ s <= 70 /\ common = {}) => r.template = "near"
        /\ (s <= 30 /\ common = {} /\ C # <<>>) => r.template = "new_view" /\ r.arg = C[1]
        /\ (s <= 30 /\ C = <<>>) => r.template = "diversity"

\* At 0.7 exactly, an article with two categories the second of which the user
\* often reads got the often-read reason naming that one.
C23_Witness ==
  /\ last.op = "explain_recommendation"
  /\ last.args.similarity = 70
  /\ Len(CategoriesOf(last.args.article)) = 2
  /\ last.args.top = {CategoriesOf(last.args.article)[2]}
  /\ last.result = [template |-> "category", arg |-> CategoriesOf(last.args.article)[2]]

\* C24: get_onboarding_articles(categories, count) returns at most count
\* articles, no two of which share an id.
C24_SamplesBoundedDistinct ==
  last.op = "get_onboarding_articles" =>
    /\ Len(last.result) <= last.args.count
    /\ \A i, j \in 1..Len(last.result) : last.result[i] = last.result[j] => i = j

ListedBackoff == <<1, 2, 4, 8, 16>>

C29_MigrateTerminates ==
  /\ <>(migration.pc = "done")
  /\ (migration.errors > ErrorLimit) ~> (migration.pc = "done")

\* C27: rank never writes the interaction log, the user profile, the health
\* history or the article store, and writes the user-vector row only when the
\* user had no stored vector at the call; a stored vector is left as it is.
C27_RankWritesOnlyMissingVector ==
  [][(IsCall /\ last'.op = "rank") =>
       /\ user_interactions' = user_interactions
       /\ user_profile' = user_profile
       /\ health_score_history' = health_score_history
       /\ articles' = articles
       /\ \A u \in Users \ {last'.user} : user_vectors'[u] = user_vectors[u]
       /\ user_vectors[last'.user] # None => (user_vectors' = user_vectors /\ ~last'.wrote)
       /\ last'.wrote <=> (user_vectors[last'.user] = None /\ Embedded # {})
       /\ ~last'.wrote => user_vectors' = user_vectors]_vars

\* rank for a user with a stored vector, an interaction and a profile row
\* returned a blend and wrote nothing.
C27_Witness ==
  /\ last.op = "rank" /\ last.path = "blend"
  /\ last.before # None /\ ~last.wrote
  /\ user_vectors[last.user] = last.before
  /\ OwnRows(user_interactions, last.user) # <<>>
  /\ OwnRows(user_profile, last.user) # <<>>

\* The interaction row of the call `c` is in the log.
RowStored(rows, c) ==
  \E i \in 1..Len(rows) :
    rows[i] = [user_id |-> c.user, article_id |-> c.article, interaction_type |-> c.kind]

\* C28: in record_view, record_deep_dive and record_not_interested the
\* interaction row is upserted before the user vector is read or written (a
\* failing upsert leaves the vector untouched); when the vector update fails
\* after it, the row stays stored and the vector keeps its previous value, and
\* the next feedback operation computes from that previous value.
C28_LogBeforeVector ==
  [][(IsCall /\ IsFeedback(last')) =>
       /\ ~last'.logged =>
            /\ last'.error /\ ~last'.wrote
            /\ user_vectors' = user_vectors /\ user_interactions' = user_interactions
       /\ last'.logged => RowStored(user_interactions', last')
       /\ (last'.logged /\ last'.error) =>
            /\ ~last'.wrote
            /\ user_vectors' = user_vectors
       /\ (IsFeedback(last) /\ last.logged /\ last.error /\ last'.user = last.user) =>
            /\ RowStored(user_interactions', last)
            /\ last'.before = last.before
            /\ last'.wrote =>
                 user_vectors'[last'.user]
                   = NewVector(last.before, last'.emb, Alpha(last'.kind))]_vars

\* A feedback call on an embedded article by a user with a vector raised after
\* the upsert: the row is stored and the vector is the one from before.
C28_Witness ==
  /\ IsFeedback(last) /\ last.logged /\ last.error /\ ~last.wrote
  /\ last.emb # None /\ last.before # None
  /\ user_vectors[last.user] = last.before
  /\ RowStored(user_interactions, last)

\* The vector part of C30: complete_onboarding(L, D) writes the user's vector
\* exactly when an id of L is that of an article with an embedding, and then
\* the vector is the seed of the liked and disliked embeddings; otherwise (with
\* disliked ids alone, too) the vectors table is left as it is.
C30_VectorIffLikedEmbedded ==
  [][(IsCall /\ last'.op = "complete_onboarding") =>
       LET u == last'.user
           L == last'.args.liked
           D == last'.args.disliked
       IN  /\ last'.wrote <=> (L \cap Embedded # {})
           /\ last'.wrote =>
                user_vectors' = [user_vectors EXCEPT
                                   ![u] = OnboardingSeed(L \cap Embedded, D \cap Embedded)]
           /\ ~last'.wrote => user_vectors' = user_vectors]_vars

\* C30: complete_onboarding(L, D) writes the user vector if and only if an id
\* of L is that of an article with an embedding, disliked ids alone never
\* create or change the vector, and the onboarded flag is set in every case.
C30_OnboardingVectorAndFlag ==
  [][(IsCall /\ last'.op = "complete_onboarding") =>
       /\ last'.wrote <=> (last'.args.liked \cap Embedded # {})
       /\ last'.args.liked = {} => user_vectors' = user_vectors
       /\ ReadOnboarded(user_profile', last'.user)]_vars

=============================================================================
